---- MODULE Spec2Model ----
(***************************************************************************)
(* The batch lifecycle coordinator of                                      *)
(* python-recipes/Large_Scale_Tasks_Recipe.py: run_batch = enqueue_all,    *)
(* fetch_all, merge_results over an input directory, an output directory   *)
(* tree (runs/, results/) and the remote task-group API.                   *)
(*                                                                         *)
(* File names are sequences of one-character strings, so that endswith     *)
(* and str.rstrip act on them as Python does.  A file of the output tree   *)
(* is the sequence of its CSV lines: what to_csv wrote of them so far.     *)
(***************************************************************************)
EXTENDS Integers, Sequences, FiniteSets, TLC

\* ------------------------------------------------------------------ bounds
\* process terminations (kill -9) over a behaviour
MaxKills == 1
\* exceptions raised by remote calls and by artifact writes over a behaviour
MaxFaults == 1
\* invocations of run_batch over a behaviour
MaxRuns == 2
\* validate_file is called on files with up to RowsAround rows fewer or more
\* than the ceiling
RowsAround == 50

\* ----------------------------------------------------------------- strings
DotCsv == <<".", "c", "s", "v">>
RUN_STATE_FILE_SUFFIX ==
    <<"_", "t", "g", "r", "p", "_", "r", "u", "n", "s", ".", "c", "s", "v">>
RESULT_STATE_FILE_SUFFIX ==
    <<"_", "r", "e", "s", "u", "l", "t", "s", ".", "c", "s", "v">>
MergedName == <<"m", "e", "r", "g", "e", "d">>

\* str.endswith
endswith(s, suffix) ==
    /\ Len(s) >= Len(suffix)
    /\ SubSeq(s, Len(s) - Len(suffix) + 1, Len(s)) = suffix

\* the characters of a string: str.rstrip(chars) reads chars as a set
CharSet(chars) == {chars[i] : i \in DOMAIN chars}

\* str.rstrip(chars): drops trailing characters while they are in chars
RECURSIVE rstrip(_, _)
rstrip(s, chars) ==
    IF s # <<>> /\ s[Len(s)] \in CharSet(chars)
    THEN rstrip(SubSeq(s, 1, Len(s) - 1), chars)
    ELSE s

\* ------------------------------------------------------------- State Store
\* A path of the output tree: the stage subdirectory and the file name.
\* input_filename is the base name (os.path.basename drops the directory).
output_file_stem(input_filename) ==
    IF endswith(input_filename, RUN_STATE_FILE_SUFFIX)
    THEN rstrip(input_filename, RUN_STATE_FILE_SUFFIX)
    ELSE rstrip(input_filename, DotCsv)

output_file_path(input_filename, stage) ==
    [dir  |-> stage,
     name |-> output_file_stem(input_filename) \o
              (IF stage = "results" THEN RESULT_STATE_FILE_SUFFIX
                                    ELSE RUN_STATE_FILE_SUFFIX)]

\* output_file_path creates the stage subdirectory when it is missing
output_file_path_dirs(dirset, stage) == dirset \cup {stage}

\* os.path.exists of a path of the output tree
path_exists(tree, path) == path \in DOMAIN tree

\* already_enqueued asking for the wrong stage
already_enqueued_wrong_stage(tree, input_file_name) ==
    path_exists(tree, output_file_path(input_file_name, "results"))

already_enqueued(tree, input_file_name) ==
    path_exists(tree, output_file_path(input_file_name, "runs"))

already_fetched(tree, run_file_name) ==
    path_exists(tree, output_file_path(run_file_name, "results"))

\* ---------------------------------------------------------------- CSV files
\* DataFrame.to_csv(index=False): the header line and one line per row; a
\* DataFrame built from an empty list has no columns and is written as one
\* empty line.
HeaderLine == "header"
EmptyLine == "emptyline"

\* pd.DataFrame(list of dicts): the columns are the keys of the dicts
DataFrame(records) == [cols |-> records # <<>>, rows |-> records]

to_csv(df) == IF df.cols THEN <<HeaderLine>> \o df.rows ELSE <<EmptyLine>>

\* pd.read_csv raises EmptyDataError on a file without a header line
load_csv_raises(lines) == lines = <<>> \/ lines[1] # HeaderLine

load_csv(lines) == [cols |-> TRUE, rows |-> Tail(lines)]

\* what a to_csv that did not finish (the process was killed, the write
\* raised) leaves at the path once the file was opened: the lines that
\* reached the disk, a proper prefix of the file
interrupted_write(lines) == {SubSeq(lines, 1, k) : k \in 0..(Len(lines) - 1)}

\* the tree with path holding lines
write_file(tree, path, lines) ==
    [p \in (DOMAIN tree) \cup {path} |-> IF p = path THEN lines ELSE tree[p]]

\* ------------------------------------------------------------ File Catalog
FILE_LENGTH_LIMIT == 1000

\* iter_files leaving out the names with the run-state suffix
iter_files_without_run_state(names) ==
    SelectSeq(names, LAMBDA n : /\ endswith(n, DotCsv)
                                /\ ~endswith(n, RUN_STATE_FILE_SUFFIX))

\* iter_files over the names os.listdir returned
iter_files(names) == SelectSeq(names, LAMBDA n : endswith(n, DotCsv))

\* validate_file refusing a file that has as many rows as the ceiling
validate_file_strict(f) ==
    IF ~f.exists THEN "ValidationError"
    ELSE IF ~f.parses THEN "NonRetryableError"
    ELSE IF Len(f.keys) >= FILE_LENGTH_LIMIT THEN "ValidationError"
    ELSE "ok"

\* validate_file: what it raises for a file of the input directory
validate_file(f) ==
    IF ~f.exists THEN "ValidationError"
    ELSE IF ~f.parses THEN "NonRetryableError"
    ELSE IF Len(f.keys) > FILE_LENGTH_LIMIT THEN "ValidationError"
    ELSE "ok"

\* --------------------------------------------------------- Submission Stage
\* the keys of the dict create_run_payloads builds, in insertion order: one
\* entry per distinct merge key (run_map[mpn_str] = ... overwrites)
RECURSIVE dict_keys(_, _)
dict_keys(keys, seen) ==
    IF keys = <<>> THEN <<>>
    ELSE IF Head(keys) \in seen THEN dict_keys(Tail(keys), seen)
    ELSE <<Head(keys)>> \o dict_keys(Tail(keys), seen \cup {Head(keys)})

\* the last row that carries merge key k: the row the dict entry was built from
last_row(keys, k) ==
    CHOOSE i \in DOMAIN keys :
        keys[i] = k /\ \A j \in DOMAIN keys : keys[j] = k => j <= i

\* create_run_payloads: the payloads in dict order, each with its merge key
\* and the input row it was built from
create_run_payloads(keys) ==
    LET ks == dict_keys(keys, {})
    IN  [i \in 1..Len(ks) |-> [key |-> ks[i], row |-> last_row(keys, ks[i])]]

\* state_map pairing the keys with the run ids from the far end
state_map_reversed(input_map, run_ids, tgroup) ==
    [i \in 1..Len(input_map) |->
        [key |-> input_map[i].key,
         run |-> run_ids[Len(run_ids) + 1 - i],
         batch |-> tgroup]]

\* state_map writing the batch id on the first entry alone
state_map_mixed_batches(input_map, run_ids, tgroup) ==
    [i \in 1..Len(input_map) |->
        [key |-> input_map[i].key,
         run |-> run_ids[i],
         batch |-> IF i = 1 THEN tgroup ELSE 0]]

\* the state_map of _enqueue_one: entry i pairs the i-th key of input_map
\* with run_ids[i]
state_map(input_map, run_ids, tgroup) ==
    [i \in 1..Len(input_map) |->
        [key |-> input_map[i].key, run |-> run_ids[i], batch |-> tgroup]]

\* -------------------------------------------------------------- Merge Stage
\* the merge keys that pd.read_csv parses as integers
NumericKeys == {"1"}

\* the dtype pd.read_csv infers for the merge key column: int64 when every
\* value parses as an integer, object (strings) otherwise
read_csv_dtype(column) ==
    IF column # <<>> /\ \A i \in DOMAIN column : column[i] \in NumericKeys
    THEN "int64"
    ELSE "object"

\* pd.merge raises ValueError ("You are trying to merge on object and int64
\* columns") when one key column holds strings and the other integers
pd_merge_raises(keys, result_rows) ==
    /\ keys # <<>>
    /\ result_rows # <<>>
    /\ read_csv_dtype(keys)
          # read_csv_dtype([i \in DOMAIN result_rows |-> result_rows[i].key])

NoMatch == [nan |-> TRUE]

\* pd.merge(input_df, result_df, on=mergeIdCol, how="left"): the input rows in
\* order, each with every result row of its merge key, or with empty output
\* fields when there is none
RECURSIVE pd_merge(_, _)
pd_merge(keys, result_rows) ==
    IF keys = <<>> THEN <<>>
    ELSE IF Len(keys) = 1
    THEN LET k == keys[1]
             m == SelectSeq(result_rows, LAMBDA r : r.key = k)
         IN  IF m = <<>> THEN <<[key |-> k, result |-> NoMatch]>>
             ELSE [j \in 1..Len(m) |-> [key |-> k, result |-> m[j]]]
    ELSE LET half == Len(keys) \div 2
         IN  pd_merge(SubSeq(keys, 1, half), result_rows)
             \o pd_merge(SubSeq(keys, half + 1, Len(keys)), result_rows)

\* ------------------------------------------------------ the input directory
csv_file(name, keys) ==
    [name |-> name, exists |-> TRUE, parses |-> TRUE, keys |-> keys]
\* a file that does not parse as CSV
garbled_file(name) ==
    [name |-> name, exists |-> TRUE, parses |-> FALSE, keys |-> <<>>]
\* a name os.listdir returns and os.path.exists denies (a dangling link)
dangling_file(name) ==
    [name |-> name, exists |-> FALSE, parses |-> FALSE, keys |-> <<>>]
\* a file with one row more than the ceiling
oversize_file(name) ==
    csv_file(name, [i \in 1..(FILE_LENGTH_LIMIT + 1) |-> "A"])

PlainName == <<"a">> \o DotCsv
OtherName == <<"b">> \o DotCsv
\* names that str.rstrip, the run-state suffix or the merged pseudo-file
\* name treat specially, and a name without the input extension
OddNames ==
    { <<"a", "s">> \o DotCsv,
      <<"a", "t">> \o DotCsv,
      MergedName \o DotCsv,
      <<"a">> \o RUN_STATE_FILE_SUFFIX,
      <<"a", ".", "t", "x", "t">> }

\* the files a.csv may be: no rows, one row, two rows, a repeated merge key,
\* a merge key that is a number beside one that is not, not CSV, a dangling
\* link, too many rows
PlainFiles ==
    { csv_file(PlainName, ks) :
        ks \in {<<>>, <<"A">>, <<"A", "B">>, <<"A", "A">>, <<"A", "1">>} }
    \cup { garbled_file(PlainName), dangling_file(PlainName),
           oversize_file(PlainName) }
TwoRows == <<"A", "B">>
OneRow == <<"B">>
OddFiles(keys) == { csv_file(n, keys) : n \in OddNames }

\* two files in one directory: a.csv, whatever it is, beside a sound b.csv,
\* and a sound a.csv beside a file with an odd name
FilePairs ==
    { <<f, csv_file(OtherName, OneRow)>> : f \in PlainFiles }
    \cup { <<csv_file(PlainName, <<"A">>), g>> : g \in OddFiles(OneRow) }

\* a missing directory, an empty one, and the listings of one or two files
InputDirs ==
    { [exists |-> FALSE, listing |-> <<>>], [exists |-> TRUE, listing |-> <<>>] }
    \cup { [exists |-> TRUE, listing |-> <<f>>] : f \in PlainFiles \cup OddFiles(TwoRows) }
    \cup { [exists |-> TRUE, listing |-> p] : p \in FilePairs }
    \cup { [exists |-> TRUE, listing |-> <<p[2], p[1]>>] : p \in FilePairs }

\* every order in which os.listdir may return the names of a set
listdir(names) ==
    { s \in [1..Cardinality(names) -> names] :
        \A i, j \in DOMAIN s : i # j => s[i] # s[j] }

\* -------------------------------------------------------------------- state
VARIABLES
    DRY_RUN,        \* the module flag --dry-run sets
    SKIP_INVALID,   \* the module flag --skip-invalid sets
    input,          \* the input directory: whether it exists, its files
    dirs,           \* the stage subdirectories of the output directory
    tree,           \* the output tree: path -> the lines of the file
    groups,         \* the remote task groups, by id: active, the inputs added
    pc,             \* where run_batch stands
    loc,            \* the locals of the functions on the call stack
    calls,          \* remote calls of this invocation, per input file
    before,         \* the output tree a successful invocation left behind
    invocations,    \* run_batch invocations so far
    kills,          \* process terminations so far
    faults          \* exceptions of remote calls and writes so far

vars == <<DRY_RUN, SKIP_INVALID, input, dirs, tree, groups, pc, loc, calls,
          before, invocations, kills, faults>>

NoFile == <<>>
NoLocals ==
    [listing |-> <<>>, file_found |-> FALSE, all_completed |-> TRUE,
     file |-> NoFile, completed |-> "none", input_map |-> <<>>, tgroup |-> 0,
     run_ids |-> <<>>, run_df |-> <<>>, idx |-> 0, result |-> "none",
     results |-> <<>>, merged_df |-> <<>>, error |-> "none",
     self |-> "none", response |-> "none", ret |-> "none",
     current_time |-> 0, args |-> "none"]

input_names == [i \in DOMAIN input.listing |-> input.listing[i].name]
input_file(name) == CHOOSE f \in {input.listing[i] : i \in DOMAIN input.listing} : f.name = name
NoCalls == [n \in {input.listing[i].name : i \in DOMAIN input.listing} |->
               [create |-> 0, add_runs |-> 0]]
NoTree == [p \in {} |-> <<>>]
NoBefore == [valid |-> FALSE, tree |-> NoTree]

Stopped == {"idle", "done", "raised", "killed"}

Init ==
    /\ DRY_RUN = FALSE
    /\ SKIP_INVALID = FALSE
    /\ input \in InputDirs
    /\ dirs = {}
    /\ tree = NoTree
    /\ groups = <<>>
    /\ pc = "idle"
    /\ loc = NoLocals
    /\ calls = NoCalls
    /\ before = NoBefore
    /\ invocations = 0
    /\ kills = 0
    /\ faults = 0

\* ------------------------------------------------------------- Orchestrator
\* a process starts: the flags are set from the command line and run_batch is
\* called
run_batch ==
    /\ pc \in Stopped
    /\ invocations < MaxRuns
    /\ invocations' = invocations + 1
    /\ DRY_RUN' \in BOOLEAN
    /\ SKIP_INVALID' \in BOOLEAN
    /\ before' = IF pc = "done" /\ ~DRY_RUN
                 THEN [valid |-> TRUE, tree |-> tree]
                 ELSE NoBefore
    /\ calls' = NoCalls
    /\ loc' = NoLocals
    /\ pc' = "enqueue_all"
    /\ UNCHANGED <<input, dirs, tree, groups, kills, faults>>

\* exception e, raised while file was at hand, leaves run_batch
raises(e, file) ==
    /\ pc' = "raised"
    /\ loc' = [NoLocals EXCEPT !.error = e, !.file = file]

\* enqueue_one returned completed to the loop of enqueue_all
enqueue_one_returns(completed) ==
    /\ pc' = "enqueue_all_for"
    /\ loc' = [NoLocals EXCEPT !.listing = loc.listing,
                               !.file_found = loc.file_found,
                               !.all_completed = loc.all_completed /\ completed,
                               !.completed = completed]

\* enqueue_all: the while loop starts a pass, iter_files lists the directory
enqueue_all_iter ==
    /\ pc = "enqueue_all"
    /\ IF ~input.exists
       THEN raises("ValidationError", NoFile)
       ELSE /\ pc' = "enqueue_all_for"
            /\ loc' = [NoLocals EXCEPT
                          !.listing = iter_files(input_names),
                          !.file_found = iter_files(input_names) # <<>>]
    /\ UNCHANGED <<DRY_RUN, SKIP_INVALID, input, dirs, tree, groups, calls,
                   before, invocations, kills, faults>>

\* enqueue_all: the for loop takes the next file and asks already_enqueued,
\* which calls output_file_path
enqueue_all_visit ==
    /\ pc = "enqueue_all_for"
    /\ loc.listing # <<>>
    /\ dirs' = output_file_path_dirs(dirs, "runs")
    /\ IF already_enqueued(tree, Head(loc.listing))
       THEN /\ pc' = pc
            /\ loc' = [loc EXCEPT !.listing = Tail(loc.listing)]
       ELSE /\ pc' = "enqueue_one"
            /\ loc' = [loc EXCEPT !.listing = Tail(loc.listing),
                                  !.file = Head(loc.listing)]
    /\ UNCHANGED <<DRY_RUN, SKIP_INVALID, input, tree, groups, calls, before,
                   invocations, kills, faults>>

\* enqueue_all_end breaking out of the while loop after any pass
enqueue_all_end_one_pass ==
    /\ pc = "enqueue_all_for"
    /\ loc.listing = <<>>
    /\ IF ~loc.file_found
       THEN raises("ValidationError", NoFile)
       ELSE /\ loc' = NoLocals
            /\ pc' = IF DRY_RUN THEN "done" ELSE "fetch_all"
    /\ UNCHANGED <<DRY_RUN, SKIP_INVALID, input, dirs, tree, groups, calls,
                   before, invocations, kills, faults>>

\* enqueue_all: the for loop is exhausted (iter_files raises when it yielded
\* nothing), then break, dry-run break or sleep and the next pass
enqueue_all_end ==
    /\ pc = "enqueue_all_for"
    /\ loc.listing = <<>>
    /\ IF ~loc.file_found
       THEN raises("ValidationError", NoFile)
       ELSE /\ loc' = NoLocals
            /\ pc' = IF loc.all_completed \/ DRY_RUN
                     THEN (IF DRY_RUN THEN "done" ELSE "fetch_all")
                     ELSE "enqueue_all"
    /\ UNCHANGED <<DRY_RUN, SKIP_INVALID, input, dirs, tree, groups, calls,
                   before, invocations, kills, faults>>

\* on_validation skipping a file that does not parse whatever SKIP_INVALID is
on_validation_always_lenient(v, skip_invalid, dry_run) ==
    IF v = "ValidationError" THEN "raise"
    ELSE IF v = "NonRetryableError" THEN "return_true"
    ELSE IF dry_run THEN "return_true"
    ELSE "enqueue"

\* on_validation without the dry-run return
on_validation_ignores_dry_run(v, skip_invalid, dry_run) ==
    IF v = "ValidationError" THEN "raise"
    ELSE IF v = "NonRetryableError"
    THEN (IF skip_invalid THEN "return_true" ELSE "raise")
    ELSE "enqueue"

\* on_validation with the ValidationError caught by "except Exception" of
\* enqueue_one: logged, False returned, the file retried
on_validation_caught(v, skip_invalid, dry_run) ==
    IF v = "ValidationError" THEN "return_false"
    ELSE IF v = "NonRetryableError"
    THEN (IF skip_invalid THEN "return_true" ELSE "raise")
    ELSE IF dry_run THEN "return_true"
    ELSE "enqueue"

\* what _enqueue_one and the except clauses of enqueue_one make of the
\* outcome v of validate_file: the ValidationError is re-raised, a
\* NonRetryableError is raised as ValidationError unless SKIP_INVALID makes
\* it return True, a dry run returns True after load_csv
on_validation(v, skip_invalid, dry_run) ==
    IF v = "ValidationError" THEN "raise"
    ELSE IF v = "NonRetryableError"
    THEN (IF skip_invalid THEN "return_true" ELSE "raise")
    ELSE IF dry_run THEN "return_true"
    ELSE "enqueue"

\* enqueue_one_validate asking already_enqueued first and returning True
\* for a file that is
enqueue_one_validate_checks_done ==
    /\ pc = "enqueue_one"
    /\ LET f == input_file(loc.file)
           todo == IF already_enqueued(tree, loc.file) THEN "return_true"
                   ELSE on_validation(validate_file(f), SKIP_INVALID, DRY_RUN)
       IN  CASE todo = "raise" -> raises("ValidationError", loc.file)
             [] todo = "return_true" -> enqueue_one_returns(TRUE)
             [] todo = "return_false" -> enqueue_one_returns(FALSE)
             [] todo = "enqueue" ->
                  /\ pc' = "task_group_create"
                  /\ loc' = [loc EXCEPT !.input_map = create_run_payloads(f.keys)]
    /\ UNCHANGED <<DRY_RUN, SKIP_INVALID, input, dirs, tree, groups, calls,
                   before, invocations, kills, faults>>

\* _enqueue_one up to the first remote call: validate_file, load_csv, the
\* dry-run return, create_run_payloads
enqueue_one_validate ==
    /\ pc = "enqueue_one"
    /\ LET f == input_file(loc.file)
           todo == on_validation(validate_file(f), SKIP_INVALID, DRY_RUN)
       IN  CASE todo = "raise" -> raises("ValidationError", loc.file)
             [] todo = "return_true" -> enqueue_one_returns(TRUE)
             [] todo = "return_false" -> enqueue_one_returns(FALSE)
             [] todo = "enqueue" ->
                  /\ pc' = "task_group_create"
                  /\ loc' = [loc EXCEPT !.input_map = create_run_payloads(f.keys)]
    /\ UNCHANGED <<DRY_RUN, SKIP_INVALID, input, dirs, tree, groups, calls,
                   before, invocations, kills, faults>>

\* client.beta.task_group.create(): a new group, or an exception that
\* enqueue_one catches
enqueue_one_create ==
    /\ pc = "task_group_create"
    /\ \/ /\ groups' = Append(groups, [active |-> TRUE, inputs |-> <<>>])
          /\ calls' = [calls EXCEPT ![loc.file].create = @ + 1]
          /\ pc' = "add_runs"
          /\ loc' = [loc EXCEPT !.tgroup = Len(groups) + 1]
          /\ UNCHANGED faults
       \/ /\ faults < MaxFaults
          /\ faults' = faults + 1
          /\ enqueue_one_returns(FALSE)
          /\ UNCHANGED <<groups, calls>>
    /\ UNCHANGED <<DRY_RUN, SKIP_INVALID, input, dirs, tree, before,
                   invocations, kills>>

\* the run ids add_runs returns: one per input, in the order of the inputs
add_runs_ids(tgroup, inputs) == [i \in 1..Len(inputs) |-> <<tgroup, i>>]

\* client.beta.task_group.add_runs(task_group_id, inputs=[...]): the runs are
\* added to the group, or an exception that enqueue_one catches
enqueue_one_add_runs ==
    /\ pc = "add_runs"
    /\ \/ /\ groups' = [groups EXCEPT ![loc.tgroup].inputs = loc.input_map]
          /\ calls' = [calls EXCEPT ![loc.file].add_runs = @ + 1]
          /\ pc' = "runs_to_csv"
          /\ loc' = [loc EXCEPT !.run_ids = add_runs_ids(loc.tgroup, loc.input_map)]
          /\ UNCHANGED faults
       \/ /\ faults < MaxFaults
          /\ faults' = faults + 1
          /\ enqueue_one_returns(FALSE)
          /\ UNCHANGED <<groups, calls>>
    /\ UNCHANGED <<DRY_RUN, SKIP_INVALID, input, dirs, tree, before,
                   invocations, kills>>

\* the lines to_csv is writing at pc, and where
pending_write ==
    CASE pc = "runs_to_csv" ->
           [path  |-> output_file_path(loc.file, "runs"),
            lines |-> to_csv(DataFrame(
                         state_map(loc.input_map, loc.run_ids, loc.tgroup)))]
      [] pc = "results_to_csv" ->
           [path  |-> output_file_path(loc.file, "results"),
            lines |-> to_csv(DataFrame(loc.results))]
      [] pc = "merged_to_csv" ->
           [path  |-> output_file_path(MergedName, "results"),
            lines |-> to_csv(loc.merged_df)]

\* the trees a to_csv that does not finish may leave
interrupted_trees ==
    {tree} \cup { write_file(tree, pending_write.path, l) :
                    l \in interrupted_write(pending_write.lines) }

\* _enqueue_one: the state map is built and written to the run-state path
enqueue_one_to_csv ==
    /\ pc = "runs_to_csv"
    /\ \/ /\ tree' = write_file(tree, pending_write.path, pending_write.lines)
          /\ enqueue_one_returns(TRUE)
          /\ UNCHANGED faults
       \/ /\ faults < MaxFaults
          /\ faults' = faults + 1
          /\ tree' \in interrupted_trees
          /\ enqueue_one_returns(FALSE)
    /\ dirs' = output_file_path_dirs(dirs, "runs")
    /\ UNCHANGED <<DRY_RUN, SKIP_INVALID, input, groups, calls, before,
                   invocations, kills>>

\* -------------------------------------------------------------- Fetch Stage
\* the names of the files of a stage subdirectory
dir_names(stage) == {p.name : p \in {q \in DOMAIN tree : q.dir = stage}}

\* fetch_one_returns without the break: the pass goes on to the next file
fetch_one_returns_continue(completed) ==
    /\ pc' = "fetch_all_for"
    /\ loc' = [NoLocals EXCEPT !.listing = loc.listing,
                               !.file_found = loc.file_found,
                               !.all_completed = loc.all_completed /\ completed,
                               !.completed = completed]

\* fetch_one returned completed to the loop of fetch_all: continue, or
\* break, sleep and the next pass
fetch_one_returns(completed) ==
    /\ pc' = IF completed THEN "fetch_all_for" ELSE "fetch_all"
    /\ loc' = [NoLocals EXCEPT !.listing = loc.listing,
                               !.file_found = loc.file_found,
                               !.all_completed = loc.all_completed /\ completed,
                               !.completed = completed]

\* fetch_all: the while loop starts a pass, iter_files lists the runs
\* subdirectory
fetch_all_iter ==
    /\ pc = "fetch_all"
    /\ IF "runs" \notin dirs
       THEN raises("ValidationError", NoFile)
       ELSE /\ pc' = "fetch_all_for"
            /\ \E names \in listdir(dir_names("runs")) :
                 loc' = [NoLocals EXCEPT
                            !.listing = iter_files(names),
                            !.file_found = iter_files(names) # <<>>]
    /\ UNCHANGED <<DRY_RUN, SKIP_INVALID, input, dirs, tree, groups, calls,
                   before, invocations, kills, faults>>

\* fetch_all: the for loop takes the next run-state file and asks
\* already_fetched, which calls output_file_path
fetch_all_visit ==
    /\ pc = "fetch_all_for"
    /\ loc.listing # <<>>
    /\ dirs' = output_file_path_dirs(dirs, "results")
    /\ IF already_fetched(tree, Head(loc.listing))
       THEN /\ pc' = pc
            /\ loc' = [loc EXCEPT !.listing = Tail(loc.listing)]
       ELSE /\ pc' = "fetch_one"
            /\ loc' = [loc EXCEPT !.listing = Tail(loc.listing),
                                  !.file = Head(loc.listing)]
    /\ UNCHANGED <<DRY_RUN, SKIP_INVALID, input, tree, groups, calls, before,
                   invocations, kills, faults>>

\* fetch_all_end with the ValidationError of iter_files answered by a sleep
\* and another pass
fetch_all_end_retries ==
    /\ pc = "fetch_all_for"
    /\ loc.listing = <<>>
    /\ loc' = NoLocals
    /\ pc' = IF loc.file_found THEN "merge_results" ELSE "fetch_all"
    /\ UNCHANGED <<DRY_RUN, SKIP_INVALID, input, dirs, tree, groups, calls,
                   before, invocations, kills, faults>>

\* fetch_all: the for loop is exhausted with every file completed (iter_files
\* raises when it yielded nothing)
fetch_all_end ==
    /\ pc = "fetch_all_for"
    /\ loc.listing = <<>>
    /\ IF ~loc.file_found
       THEN raises("ValidationError", NoFile)
       ELSE /\ loc' = NoLocals
            /\ pc' = "merge_results"
    /\ UNCHANGED <<DRY_RUN, SKIP_INVALID, input, dirs, tree, groups, calls,
                   before, invocations, kills, faults>>

\* fetch_one_retrieve without the is_active check: the results of the runs
\* are fetched whatever the status of the group
fetch_one_retrieve_any_status ==
    /\ pc = "fetch_one"
    /\ LET lines == tree[[dir |-> "runs", name |-> loc.file]]
       IN  /\ ~load_csv_raises(lines)
           /\ load_csv(lines).rows # <<>>
           /\ pc' = "task_run_result"
           /\ loc' = [loc EXCEPT !.run_df = load_csv(lines).rows,
                                 !.tgroup = load_csv(lines).rows[1].batch,
                                 !.idx = 1]
    /\ UNCHANGED <<DRY_RUN, SKIP_INVALID, input, dirs, tree, groups, calls,
                   before, invocations, kills, faults>>

\* _fetch_one up to the status check: load_csv of the run-state file, the
\* group id of its first row, task_group.retrieve, is_active
fetch_one_retrieve ==
    /\ pc = "fetch_one"
    /\ LET lines == tree[[dir |-> "runs", name |-> loc.file]]
       IN  IF load_csv_raises(lines) \/ load_csv(lines).rows = <<>>
           THEN fetch_one_returns(FALSE) /\ UNCHANGED faults
           ELSE LET run_df == load_csv(lines).rows
                    tgroup_id == run_df[1].batch
                IN  \/ /\ groups[tgroup_id].active
                       /\ fetch_one_returns(FALSE)
                       /\ UNCHANGED faults
                    \/ /\ ~groups[tgroup_id].active
                       /\ pc' = "task_run_result"
                       /\ loc' = [loc EXCEPT !.run_df = run_df,
                                             !.tgroup = tgroup_id,
                                             !.idx = 1]
                       /\ UNCHANGED faults
                    \/ /\ faults < MaxFaults
                       /\ faults' = faults + 1
                       /\ fetch_one_returns(FALSE)
    /\ UNCHANGED <<DRY_RUN, SKIP_INVALID, input, dirs, tree, groups, calls,
                   before, invocations, kills>>

\* what client.task_run.result(run_id) gives for a run of a finished group
RunOutcomes == {"json", "text", "raises"}

\* the record _fetch_one appends to results for a row of the run-state file
result_record(row, tgroup_id) ==
    [key |-> row.key, run |-> row.run, batch |-> tgroup_id,
     output |-> <<"content", row.run>>]

\* results with the record appended whatever client.task_run.result gave
append_result_always(results, row, tgroup_id, result) ==
    Append(results, result_record(row, tgroup_id))

\* one turn of the loop of _fetch_one: the record is appended when the result
\* is a TaskRunJsonOutput; a call that raised and an output that is not JSON
\* go to "continue"
append_result(results, row, tgroup_id, result) ==
    IF result = "json" THEN Append(results, result_record(row, tgroup_id))
    ELSE results

\* _fetch_one: one turn of the loop over the rows of the run-state file
fetch_one_result ==
    /\ pc = "task_run_result"
    /\ \E outcome \in RunOutcomes :
         loc' = [loc EXCEPT
                    !.result = outcome,
                    !.results = append_result(@, loc.run_df[loc.idx],
                                              loc.tgroup, outcome),
                    !.idx = @ + 1]
    /\ pc' = IF loc.idx = Len(loc.run_df) THEN "results_to_csv" ELSE pc
    /\ UNCHANGED <<DRY_RUN, SKIP_INVALID, input, dirs, tree, groups, calls,
                   before, invocations, kills, faults>>

\* _fetch_one: the surviving rows are written to the results path
fetch_one_to_csv ==
    /\ pc = "results_to_csv"
    /\ \/ /\ tree' = write_file(tree, pending_write.path, pending_write.lines)
          /\ fetch_one_returns(TRUE)
          /\ UNCHANGED faults
       \/ /\ faults < MaxFaults
          /\ faults' = faults + 1
          /\ tree' \in interrupted_trees
          /\ fetch_one_returns(FALSE)
    /\ dirs' = output_file_path_dirs(dirs, "results")
    /\ UNCHANGED <<DRY_RUN, SKIP_INVALID, input, groups, calls, before,
                   invocations, kills>>

\* -------------------------------------------------------------- Merge Stage
\* the input files merge_results does not skip
merge_fetched == SelectSeq(iter_files(input_names),
                           LAMBDA n : already_fetched(tree, n))

\* load_csv of the results artifact or of the input file raises
merge_load_raises(n) ==
    \/ load_csv_raises(tree[output_file_path(n, "results")])
    \/ ~input_file(n).exists
    \/ ~input_file(n).parses

\* the turn of the loop of merge_results for input file n raises: a load_csv
\* or pd.merge
merge_one_raises(n) ==
    \/ merge_load_raises(n)
    \/ pd_merge_raises(input_file(n).keys,
                       load_csv(tree[output_file_path(n, "results")]).rows)

\* the merged frames of the files in names, concatenated
RECURSIVE merge_frames(_)
merge_frames(names) ==
    IF names = <<>> THEN <<>>
    ELSE pd_merge(input_file(Head(names)).keys,
                  load_csv(tree[output_file_path(Head(names), "results")]).rows)
         \o merge_frames(Tail(names))

\* merge_results up to pd.concat (which raises on an empty list)
merge_results ==
    /\ pc = "merge_results"
    /\ dirs' = IF iter_files(input_names) # <<>>
               THEN output_file_path_dirs(dirs, "results") ELSE dirs
    /\ IF \/ iter_files(input_names) = <<>>
          \/ merge_fetched = <<>>
          \/ \E i \in DOMAIN merge_fetched : merge_one_raises(merge_fetched[i])
       THEN raises("Exception", NoFile)
       ELSE /\ pc' = "merged_to_csv"
            /\ loc' = [NoLocals EXCEPT
                          !.merged_df = [cols |-> TRUE,
                                         rows |-> merge_frames(merge_fetched)]]
    /\ UNCHANGED <<DRY_RUN, SKIP_INVALID, input, tree, groups, calls, before,
                   invocations, kills, faults>>

\* merge_results: the merged frame is written; run_batch returns
merge_results_to_csv ==
    /\ pc = "merged_to_csv"
    /\ \/ /\ tree' = write_file(tree, pending_write.path, pending_write.lines)
          /\ pc' = "done"
          /\ loc' = NoLocals
          /\ UNCHANGED faults
       \/ /\ faults < MaxFaults
          /\ faults' = faults + 1
          /\ tree' \in interrupted_trees
          /\ raises("OSError", NoFile)
    /\ dirs' = output_file_path_dirs(dirs, "results")
    /\ UNCHANGED <<DRY_RUN, SKIP_INVALID, input, groups, calls, before,
                   invocations, kills>>

\* -------------------------------------------------------------- environment
Running == pc \notin Stopped
Writing == pc \in {"runs_to_csv", "results_to_csv", "merged_to_csv"}

\* the process is terminated; a to_csv under way does not finish
kill ==
    /\ Running
    /\ kills < MaxKills
    /\ kills' = kills + 1
    /\ pc' = "killed"
    /\ loc' = NoLocals
    /\ tree' \in IF Writing THEN interrupted_trees ELSE {tree}
    /\ UNCHANGED <<DRY_RUN, SKIP_INVALID, input, dirs, groups, calls, before,
                   invocations, faults>>

\* the remote service finishes a group. Only task_group.retrieve observes
\* it, so the step is taken where fetch_one is about to ask for the status
\* of that group.
group_finishes ==
    /\ pc = "fetch_one"
    /\ LET lines == tree[[dir |-> "runs", name |-> loc.file]]
       IN  /\ ~load_csv_raises(lines)
           /\ load_csv(lines).rows # <<>>
           /\ groups[load_csv(lines).rows[1].batch].active
           /\ groups' = [groups EXCEPT
                            ![load_csv(lines).rows[1].batch].active = FALSE]
    /\ UNCHANGED <<DRY_RUN, SKIP_INVALID, input, dirs, tree, pc, loc, calls,
                   before, invocations, kills, faults>>

Next ==
    \/ run_batch
    \/ enqueue_all_iter
    \/ enqueue_all_visit
    \/ enqueue_all_end
    \/ enqueue_one_validate
    \/ enqueue_one_create
    \/ enqueue_one_add_runs
    \/ enqueue_one_to_csv
    \/ fetch_all_iter
    \/ fetch_all_visit
    \/ fetch_all_end
    \/ fetch_one_retrieve
    \/ fetch_one_result
    \/ fetch_one_to_csv
    \/ merge_results
    \/ merge_results_to_csv
    \/ kill
    \/ group_finishes

Spec == Init /\ [][Next]_vars

\* ------------------------------------------------------------------ claims
\* C1: after a successful non-dry run_batch, a second run_batch on the same
\* directories creates no batch, submits no rows and leaves every file of the
\* output tree (run-state, results, merged) as the first run left it.
C1_RerunIdempotent ==
    (pc = "done" /\ ~DRY_RUN /\ before.valid) =>
        /\ tree = before.tree
        /\ \A n \in DOMAIN calls : calls[n].create = 0 /\ calls[n].add_runs = 0

\* C2: over a run_batch that ends successfully, task_group.create is called
\* exactly once for every file the run submits and never more than once for
\* any file, also when add_runs or the state write raised on an earlier
\* attempt and the enqueue loop retried the file.
C2_OneBatchPerFile ==
    (pc = "done" /\ ~DRY_RUN) =>
        \A n \in DOMAIN calls :
            /\ calls[n].create <= 1
            /\ calls[n].add_runs >= 1 => calls[n].create = 1

\* C3: when add_runs is given the N >= 1 payloads of a file (one per row) and
\* returns N run ids in order, the run-state artifact _enqueue_one writes has
\* N records and record i pairs the merge key of row i with run id i, the run
\* the service created from the payload of row i.
C3_PositionalCorrelation ==
    [][(/\ pc = "runs_to_csv"
        /\ pc' = "enqueue_all_for"
        /\ loc'.completed = TRUE
        /\ Len(loc.input_map) = Len(input_file(loc.file).keys)
        /\ Len(loc.input_map) >= 1)
       => LET written == tree'[output_file_path(loc.file, "runs")]
              records == Tail(written)
          IN  /\ written[1] = HeaderLine
              /\ Len(records) = Len(input_file(loc.file).keys)
              /\ \A i \in DOMAIN records :
                    /\ records[i].key = input_file(loc.file).keys[i]
                    /\ records[i].run = loc.run_ids[i]
                    /\ records[i].batch = loc.tgroup
                    /\ groups[loc.tgroup].inputs[i].row = i
                    /\ records[i].run = <<loc.tgroup, i>>]_vars

\* a two-row file has just been written to its run-state artifact
C3_Witness ==
    /\ pc = "enqueue_all_for"
    /\ invocations = 1 /\ kills = 0 /\ faults = 0
    /\ \E p \in DOMAIN tree : p.dir = "runs" /\ Len(tree[p]) = 3
    /\ \A n \in DOMAIN calls : calls[n].add_runs <= 1

\* an input file that passes validate_file
valid_file(f) ==
    f.exists /\ f.parses /\ Len(f.keys) <= FILE_LENGTH_LIMIT

\* the results path fetch_one writes for the run-state artifact of input n
fetched_path(n) ==
    output_file_path(output_file_path(n, "runs").name, "results")

\* no other .csv file of the input directory shares the run-state path or the
\* results path of n, and the merged artifact does not either
own_paths(n) ==
    /\ \A i \in DOMAIN input.listing :
          LET m == input.listing[i].name
          IN  (m # n /\ endswith(m, DotCsv)) =>
                 /\ output_file_path(m, "runs") # output_file_path(n, "runs")
                 /\ fetched_path(m) # fetched_path(n)
    /\ fetched_path(n) # output_file_path(MergedName, "results")

\* C4: when run_batch was killed and a later run_batch on the same
\* directories completes, every valid input file has a run-state artifact
\* with one record per submitted row and a results artifact whose records
\* are records of that run-state artifact.
C4_ResumeAfterKill ==
    (pc = "done" /\ ~DRY_RUN /\ kills > 0) =>
        \A i \in DOMAIN input.listing :
            LET f == input.listing[i]
                rp == output_file_path(f.name, "runs")
                fp == fetched_path(f.name)
            IN  (endswith(f.name, DotCsv) /\ valid_file(f) /\ own_paths(f.name)) =>
                   /\ rp \in DOMAIN tree
                   /\ [j \in 1..(Len(tree[rp]) - 1) |-> tree[rp][j + 1].key]
                         = dict_keys(f.keys, {})
                   /\ fp \in DOMAIN tree
                   /\ \A j \in 2..Len(tree[fp]) :
                         \E k \in 2..Len(tree[rp]) :
                            /\ tree[rp][k].key = tree[fp][j].key
                            /\ tree[rp][k].run = tree[fp][j].run

\* C5: a file whose run-state artifact exists when enqueue_all visits it is
\* skipped (the loop moves on, no create, no add_runs, no write), and a
\* run-state file whose results artifact exists when fetch_all visits it is
\* skipped likewise (no status query, no result fetch, no write).
C5_DoneFilesSkipped ==
    [][(/\ pc \in {"enqueue_all_for", "fetch_all_for"}
        /\ loc.listing # <<>>
        /\ output_file_path(Head(loc.listing),
                            IF pc = "enqueue_all_for" THEN "runs" ELSE "results")
              \in DOMAIN tree
        /\ pc' # "killed")
       => /\ pc' = pc
          /\ loc'.listing = Tail(loc.listing)
          /\ UNCHANGED <<tree, groups, calls, faults>>]_vars

\* in a second invocation, fetch_all is about to visit a file that is fetched
C5_Witness ==
    /\ invocations = 2
    /\ pc = "fetch_all_for"
    /\ loc.listing # <<>>
    /\ output_file_path(Head(loc.listing), "results") \in DOMAIN tree
    /\ \A n \in DOMAIN calls : calls[n].create = 0

\* C6: a run-state artifact that exists is complete: it is the whole output
\* of to_csv and has one record per run added to the group it names.
C6_RunStateNeverPartial ==
    \A p \in DOMAIN tree :
        p.dir = "runs" =>
            \/ tree[p] = <<EmptyLine>>
            \/ /\ Len(tree[p]) >= 2
               /\ tree[p][1] = HeaderLine
               /\ Len(tree[p]) - 1 = Len(groups[tree[p][2].batch].inputs)

\* C7: once every run of the run-state artifact is classified and the
\* surviving rows are being written, the results artifact, whenever it exists,
\* holds all surviving rows.
C7_ResultsNeverPartial ==
    [][pc = "results_to_csv"
       => LET p == output_file_path(loc.file, "results")
          IN  p \in DOMAIN tree' => tree'[p] = to_csv(DataFrame(loc.results))]_vars

\* C8: already_enqueued and already_fetched answer whether the artifact
\* exists and leave the output directory tree as it was.
C8_ChecksLeaveTreeUnchanged ==
    [][(/\ pc \in {"enqueue_all_for", "fetch_all_for"}
        /\ loc.listing # <<>>
        /\ pc' # "killed")
       => /\ dirs' = dirs
          /\ tree' = tree
          /\ (pc' = pc) <=>
                output_file_path(Head(loc.listing),
                                 IF pc = "enqueue_all_for" THEN "runs" ELSE "results")
                   \in DOMAIN tree]_vars

\* C9 as stated: no file whose name ends with _tgrp_runs.csv is yielded as a
\* candidate input file.
C9_NoRunStateFileYielded ==
    pc = "enqueue_all_for" =>
        \A i \in DOMAIN loc.listing :
            ~endswith(loc.listing[i], RUN_STATE_FILE_SUFFIX)

\* C9 as amended: iter_files yields exactly the files of the directory whose
\* names end with .csv, in listing order, those that end with _tgrp_runs.csv
\* included.
C9_YieldsEveryCsvFile ==
    [][(pc = "enqueue_all" /\ pc' = "enqueue_all_for")
       => /\ \A i \in DOMAIN input.listing :
                endswith(input.listing[i].name, DotCsv)
                   <=> \E j \in DOMAIN loc'.listing :
                          loc'.listing[j] = input.listing[i].name
          /\ \A j \in DOMAIN loc'.listing :
                \E i \in DOMAIN input.listing :
                   loc'.listing[j] = input.listing[i].name
          /\ \A j, k \in DOMAIN loc'.listing :
                j < k => \E i, l \in DOMAIN input.listing :
                            /\ i < l
                            /\ input.listing[i].name = loc'.listing[j]
                            /\ input.listing[l].name = loc'.listing[k]]_vars

\* iter_files has yielded a file of the input directory whose name ends with
\* the run-state suffix, and enqueue_all is submitting it
C9_Witness ==
    /\ pc = "task_group_create"
    /\ endswith(loc.file, RUN_STATE_FILE_SUFFIX)

\* validate_file raises ValidationError for f: a missing file, or more rows
\* than the ceiling
fails_validation(f) ==
    ~f.exists \/ (f.parses /\ Len(f.keys) > FILE_LENGTH_LIMIT)

\* C10: when validate_file raises ValidationError for a file, the error
\* leaves run_batch: nothing is created, submitted or written for the file,
\* and the invocation makes no further pass, no fetch and no merge.
C10_ValidationErrorPropagates ==
    [][/\ (/\ pc = "enqueue_one"
           /\ fails_validation(input_file(loc.file))
           /\ pc' # "killed")
          => /\ pc' = "raised"
             /\ loc'.error = "ValidationError"
             /\ output_file_path(loc.file, "runs") \notin DOMAIN tree'
             /\ calls[loc.file].create = 0
             /\ calls[loc.file].add_runs = 0
             /\ UNCHANGED <<tree, groups, calls>>
       /\ pc = "raised"
          => /\ pc' \in {"raised", "enqueue_all"}
             /\ pc' = "enqueue_all" => invocations' = invocations + 1
             /\ pc' = "raised" => UNCHANGED <<tree, groups, calls>>]_vars

\* run_batch has raised the ValidationError of a file with too many rows
C10_Witness ==
    /\ pc = "raised"
    /\ loc.error = "ValidationError"
    /\ loc.file # NoFile
    /\ input_file(loc.file).parses
    /\ Len(input_file(loc.file).keys) > FILE_LENGTH_LIMIT

\* C11: an exception other than a validation failure raised by
\* task_group.create, by add_runs or by the state write does not leave
\* enqueue_one: enqueue_one returns False, the file has no run-state artifact
\* afterwards, and a pass in which a file did not complete is followed by
\* another pass.
C11_SubmissionErrorRetried ==
    [][/\ (/\ pc \in {"task_group_create", "add_runs", "runs_to_csv"}
           /\ faults' = faults + 1)
          => /\ pc' = "enqueue_all_for"
             /\ loc'.completed = FALSE
             /\ loc'.all_completed = FALSE
             /\ output_file_path(loc.file, "runs") \notin DOMAIN tree'
       /\ (/\ pc = "enqueue_all_for"
           /\ loc.listing = <<>>
           /\ loc.file_found
           /\ ~loc.all_completed
           /\ ~DRY_RUN
           /\ pc' # "killed")
          => pc' = "enqueue_all"]_vars

\* the input directory holds .csv files, and each of them passes
\* validate_file or does not parse
only_unparseable_invalid ==
    /\ input.exists
    /\ iter_files(input_names) # <<>>
    /\ \A i \in DOMAIN input.listing :
          endswith(input.listing[i].name, DotCsv) =>
             validate_file(input.listing[i]) \in {"ok", "NonRetryableError"}

\* C12: with SKIP_INVALID set, enqueue_one of a file that does not parse
\* returns True without a create or add_runs call and without a run-state
\* artifact, the file does not cause a further enqueue pass, and a run over
\* valid and unparseable files is not aborted with a ValidationError.
C12_SkipInvalidNeverAborts ==
    [][/\ (/\ pc = "enqueue_one"
           /\ SKIP_INVALID
           /\ validate_file(input_file(loc.file)) = "NonRetryableError"
           /\ pc' # "killed")
          => /\ pc' = "enqueue_all_for"
             /\ loc'.completed = TRUE
             /\ loc'.all_completed = loc.all_completed
             /\ calls[loc.file].create = 0
             /\ calls[loc.file].add_runs = 0
             /\ output_file_path(loc.file, "runs") \notin DOMAIN tree'
             /\ UNCHANGED <<tree, groups, calls>>
       /\ (/\ SKIP_INVALID
           /\ only_unparseable_invalid
           /\ pc' = "raised")
          => loc'.error # "ValidationError"]_vars

\* C13: with SKIP_INVALID unset, a file that does not parse is fatal:
\* _enqueue_one raises ValidationError, run_batch is left with no create or
\* add_runs call for the file and nothing written, and the file is not tried
\* again: nothing follows but a new invocation.
C13_UnparseableIsFatal ==
    [][/\ (/\ pc = "enqueue_one"
           /\ ~SKIP_INVALID
           /\ validate_file(input_file(loc.file)) = "NonRetryableError"
           /\ pc' # "killed")
          => /\ pc' = "raised"
             /\ loc'.error = "ValidationError"
             /\ loc'.file = loc.file
             /\ calls[loc.file].create = 0
             /\ calls[loc.file].add_runs = 0
             /\ UNCHANGED <<tree, groups, calls>>
       /\ pc = "raised"
          => /\ pc' = "enqueue_all"
             /\ invocations' = invocations + 1]_vars

\* run_batch has raised the ValidationError of a file that does not parse,
\* with SKIP_INVALID unset
C13_Witness ==
    /\ pc = "raised"
    /\ ~SKIP_INVALID
    /\ loc.error = "ValidationError"
    /\ loc.file # NoFile
    /\ validate_file(input_file(loc.file)) = "NonRetryableError"

\* C14: a dry run validates only: no create, add_runs, status query or result
\* fetch, nothing written to the output tree, and one pass of the enqueue
\* loop, after which run_batch returns.
C14_DryRunValidatesOnly ==
    [][/\ (DRY_RUN /\ Running /\ pc' # "killed")
          => /\ pc' \in {"enqueue_all_for", "enqueue_one", "done", "raised"}
             /\ \A n \in DOMAIN calls :
                   calls'[n].create = 0 /\ calls'[n].add_runs = 0
             /\ UNCHANGED <<tree, groups>>
       /\ (DRY_RUN' /\ pc' = "enqueue_all") => pc \in Stopped]_vars

\* the first invocation, a dry run over a directory with a valid file that
\* has rows, has returned
C14_Witness ==
    /\ pc = "done"
    /\ DRY_RUN
    /\ invocations = 1
    /\ tree = NoTree
    /\ \E i \in DOMAIN input.listing :
          /\ endswith(input.listing[i].name, DotCsv)
          /\ validate_file(input.listing[i]) = "ok"
          /\ input.listing[i].keys # <<>>

\* C15: iter_files raises ValidationError for a directory that does not exist
\* and for one without .csv files; from enqueue_all as from fetch_all (over
\* the runs subdirectory) the error leaves run_batch at once, with no call,
\* no write and no further pass.
C15_CatalogErrorsAreFatal ==
    [][/\ (/\ pc = "enqueue_all"
           /\ (~input.exists \/ iter_files(input_names) = <<>>)
           /\ pc' # "killed")
          => \/ pc' = "raised" /\ loc'.error = "ValidationError"
             \/ /\ input.exists
                /\ pc' = "enqueue_all_for"
                /\ loc'.listing = <<>>
                /\ ~loc'.file_found
       /\ (/\ pc = "fetch_all"
           /\ \/ "runs" \notin dirs
              \/ \A n \in dir_names("runs") : ~endswith(n, DotCsv)
           /\ pc' # "killed")
          => \/ pc' = "raised" /\ loc'.error = "ValidationError"
             \/ /\ "runs" \in dirs
                /\ pc' = "fetch_all_for"
                /\ loc'.listing = <<>>
                /\ ~loc'.file_found
       /\ (/\ pc \in {"enqueue_all_for", "fetch_all_for"}
           /\ ~loc.file_found
           /\ pc' # "killed")
          => /\ pc' = "raised"
             /\ loc'.error = "ValidationError"
             /\ UNCHANGED <<tree, groups, calls>>
       /\ pc = "raised"
          => /\ pc' = "enqueue_all"
             /\ invocations' = invocations + 1]_vars

\* fetch_all has raised the ValidationError of iter_files over a runs
\* subdirectory that holds no file
C15_Witness ==
    /\ pc = "raised"
    /\ loc.error = "ValidationError"
    /\ loc.file = NoFile
    /\ input.exists
    /\ iter_files(input_names) # <<>>
    /\ "runs" \in dirs
    /\ dir_names("runs") = {}

\* the pc values of fetch_one
FetchOne == {"fetch_one", "task_run_result", "results_to_csv"}

\* every task group has runs and is still active, and no call or write has
\* failed
all_groups_active ==
    /\ faults = 0
    /\ kills = 0
    /\ groups # <<>>
    /\ \A g \in DOMAIN groups : groups[g].active /\ groups[g].inputs # <<>>

C17_ResultsHoldSurvivingRows ==
    [][/\ (pc = "fetch_one" /\ pc' = "task_run_result")
          => /\ loc'.run_df = Tail(tree[[dir |-> "runs", name |-> loc.file]])
             /\ loc'.idx = 1
             /\ loc'.results = <<>>
       /\ (pc = "task_run_result" /\ pc' # "killed")
          => LET row == loc.run_df[loc.idx]
             IN  /\ loc'.result \in RunOutcomes
                 /\ loc'.results =
                       IF loc'.result = "json"
                       THEN Append(loc.results,
                                   [key |-> row.key, run |-> row.run,
                                    batch |-> row.batch,
                                    output |-> <<"content", row.run>>])
                       ELSE loc.results
                 /\ loc'.idx = loc.idx + 1
                 /\ loc'.run_df = loc.run_df
                 /\ pc' = IF loc.idx = Len(loc.run_df)
                          THEN "results_to_csv" ELSE "task_run_result"
                 /\ tree' = tree
       /\ (pc = "results_to_csv" /\ pc' = "fetch_all_for")
          => /\ loc'.completed = TRUE
             /\ tree'[output_file_path(loc.file, "results")]
                   = IF loc.results = <<>> THEN <<EmptyLine>>
                     ELSE <<HeaderLine>> \o loc.results]_vars

\* a results artifact has been written for a run-state artifact of two runs:
\* the first run was dropped and the second run has its record
C17_Witness ==
    /\ pc = "fetch_all_for"
    /\ faults = 0
    /\ kills = 0
    /\ \E rp \in DOMAIN tree :
          /\ rp.dir = "runs"
          /\ Len(tree[rp]) = 3
          /\ output_file_path(rp.name, "results") \in DOMAIN tree
          /\ LET fp == output_file_path(rp.name, "results")
             IN  /\ Len(tree[fp]) = 2
                 /\ tree[fp][2].run = tree[rp][3].run

\* C18: a pass of fetch_all visits the files in listing order; a file that is
\* not fetched is handed to fetch_one; when fetch_one reports not completed
\* the pass ends there and the next pass lists the runs subdirectory anew, so
\* no status is asked for a file listed after it before that.
C18_FetchShortCircuit ==
    [][/\ (pc = "fetch_all_for" /\ loc.listing # <<>> /\ pc' # "killed")
          => /\ loc'.listing = Tail(loc.listing)
             /\ IF output_file_path(Head(loc.listing), "results") \in DOMAIN tree
                THEN pc' = "fetch_all_for"
                ELSE pc' = "fetch_one" /\ loc'.file = Head(loc.listing)
       /\ (pc \in FetchOne /\ pc' \notin FetchOne \cup {"killed"})
          => /\ loc'.listing = loc.listing
             /\ IF loc'.completed THEN pc' = "fetch_all_for"
                                  ELSE pc' = "fetch_all"
       /\ (pc = "fetch_all" /\ pc' # "killed")
          => \/ pc' = "raised"
             \/ /\ pc' = "fetch_all_for"
                /\ Len(loc'.listing) = Cardinality(dir_names("runs"))
                /\ {loc'.listing[i] : i \in DOMAIN loc'.listing}
                      = dir_names("runs")
       /\ pc' = "fetch_one" => pc \in {"fetch_all_for", "fetch_one"}]_vars

\* a pass has stopped at a file whose group is active with a file still to
\* visit
C18_Witness ==
    /\ pc = "fetch_all"
    /\ ~loc.all_completed
    /\ loc.listing # <<>>
    /\ all_groups_active

\* no merge key occurs twice
unique_keys(keys) == \A i, j \in DOMAIN keys : keys[i] = keys[j] => i = j

\* the input files merge_results finds fetched, in listing order
fetched_files ==
    SelectSeq(input_names,
              LAMBDA n : /\ endswith(n, DotCsv)
                         /\ output_file_path(n, "results") \in DOMAIN tree)

\* the number of input rows of the files listed before position k
RECURSIVE rows_before(_, _)
rows_before(names, k) ==
    IF k <= 1 THEN 0
    ELSE rows_before(names, k - 1) + Len(input_file(names[k - 1]).keys)

\* C19: for fetched input files with unique merge keys, merge_results builds
\* the left outer join of the rows of each file with its results artifact:
\* one merged row per input row, in order, with the result record of the same
\* merge key or with empty output fields, and writes the rows of all fetched
\* files, one file after the other, as the merged artifact.
C19_MergeIsLeftJoin ==
    [][/\ (/\ pc = "merge_results"
           /\ pc' # "killed"
           /\ fetched_files # <<>>
           /\ \A k \in DOMAIN fetched_files :
                 /\ input_file(fetched_files[k]).exists
                 /\ input_file(fetched_files[k]).parses
                 /\ unique_keys(input_file(fetched_files[k]).keys))
          => /\ pc' = "merged_to_csv"
             /\ Len(loc'.merged_df.rows)
                   = rows_before(fetched_files, Len(fetched_files) + 1)
             /\ \A k \in DOMAIN fetched_files :
                   LET keys == input_file(fetched_files[k]).keys
                       res  == Tail(tree[output_file_path(fetched_files[k],
                                                          "results")])
                   IN  \A i \in DOMAIN keys :
                          LET r == loc'.merged_df.rows[
                                      rows_before(fetched_files, k) + i]
                          IN  /\ r.key = keys[i]
                              /\ IF \E j \in DOMAIN res : res[j].key = keys[i]
                                 THEN \E j \in DOMAIN res :
                                         /\ res[j].key = keys[i]
                                         /\ r.result = res[j]
                                 ELSE r.result = NoMatch
       /\ (pc = "merged_to_csv" /\ pc' = "done")
          => tree'[output_file_path(MergedName, "results")]
                = <<HeaderLine>> \o loc.merged_df.rows]_vars

\* C20: an input file that is not fetched is no error for merge_results:
\* whichever of the input files have results artifacts (that load and merge),
\* merge_results goes on to write the merged artifact, and every merged row
\* is a row of a fetched file.
C20_UnfetchedIsNoError ==
    [][(/\ pc = "merge_results"
        /\ pc' # "killed"
        /\ input.exists
        /\ iter_files(input_names) # <<>>
        /\ \A k \in DOMAIN fetched_files : ~merge_one_raises(fetched_files[k]))
       => /\ pc' = "merged_to_csv"
          /\ \A i \in DOMAIN loc'.merged_df.rows :
                \E k \in DOMAIN fetched_files :
                   \E j \in DOMAIN input_file(fetched_files[k]).keys :
                      input_file(fetched_files[k]).keys[j]
                         = loc'.merged_df.rows[i].key]_vars

\* the run-state artifacts and the per-file results artifacts: every file of
\* the output tree but the merged artifact
per_file_paths ==
    {p \in DOMAIN tree : p # output_file_path(MergedName, "results")}

\* C21: merge_results makes no remote call and changes no run-state artifact
\* and no results artifact of an input file; run again on unchanged input
\* files and results artifacts it writes the merged artifact it wrote before.
C21_MergeIsRepeatable ==
    [][/\ (pc \in {"merge_results", "merged_to_csv"} /\ pc' # "killed")
          => /\ UNCHANGED <<groups, calls>>
             /\ \A p \in DOMAIN tree :
                   p.dir = "runs" => tree'[p] = tree[p]
             /\ \A i \in DOMAIN input.listing :
                   LET p == output_file_path(input.listing[i].name, "results")
                   IN  (endswith(input.listing[i].name, DotCsv)
                        /\ p \in DOMAIN tree) => tree'[p] = tree[p]
       /\ (/\ pc = "merged_to_csv"
           /\ pc' = "done"
           /\ before.valid
           /\ \A p \in per_file_paths :
                 p \in DOMAIN before.tree /\ before.tree[p] = tree[p])
          => tree'[output_file_path(MergedName, "results")]
                = before.tree[output_file_path(MergedName, "results")]]_vars

\* the pc values of fetch_all and of the fetch_one it calls
FetchStage == FetchOne \cup {"fetch_all", "fetch_all_for"}

\* C22: in a run that is not a dry run the stages follow one another:
\* fetch_all starts only when a pass of enqueue_all ended with every file
\* completed, merge_results starts only when a pass of fetch_all ended with a
\* results artifact for every run-state file, and merge_results runs once.
C22_StagesInOrder ==
    [][/\ (pc' \in FetchStage /\ pc \notin FetchStage)
          => /\ pc = "enqueue_all_for"
             /\ pc' = "fetch_all"
             /\ loc.listing = <<>>
             /\ loc.all_completed
             /\ ~DRY_RUN
       /\ pc' = "merge_results"
          => /\ pc = "fetch_all_for"
             /\ loc.listing = <<>>
             /\ \A n \in dir_names("runs") :
                   endswith(n, DotCsv) =>
                      output_file_path(n, "results") \in DOMAIN tree
       /\ pc' = "merged_to_csv" => pc = "merge_results"
       /\ pc \in {"merge_results", "merged_to_csv"}
          => pc' \in {"merged_to_csv", "done", "raised", "killed"}]_vars

\* merge_results starts in a first invocation that submitted and fetched two
\* files and had to retry a submission
C22_Witness ==
    /\ pc = "merge_results"
    /\ invocations = 1
    /\ faults = 1
    /\ Cardinality(dir_names("runs")) = 2
    /\ \E n \in DOMAIN calls : calls[n].create = 2

\* ------------------------------------------------- run_batch under fairness
\* run_batch over an input directory whose .csv files all pass validate_file,
\* in a process that is not terminated from outside
FairInit ==
    /\ Init
    /\ input.exists
    /\ iter_files(input_names) # <<>>
    /\ \A i \in DOMAIN input.listing :
          endswith(input.listing[i].name, DotCsv) =>
             validate_file(input.listing[i]) = "ok"

FairNext ==
    \/ run_batch
    \/ enqueue_all_iter
    \/ enqueue_all_visit
    \/ enqueue_all_end
    \/ enqueue_one_validate
    \/ enqueue_one_create
    \/ enqueue_one_add_runs
    \/ enqueue_one_to_csv
    \/ fetch_all_iter
    \/ fetch_all_visit
    \/ fetch_all_end
    \/ fetch_one_retrieve
    \/ fetch_one_result
    \/ fetch_one_to_csv
    \/ merge_results
    \/ merge_results_to_csv
    \/ group_finishes

\* the process goes on as long as it has a step to take (the loops sleep and
\* resume); a group that is polled again and again finishes; the exceptions
\* of remote calls and writes stop after MaxFaults of them
FairSpec ==
    /\ FairInit
    /\ [][FairNext]_vars
    /\ WF_vars(FairNext)
    /\ SF_vars(group_finishes)

\* C23: when transient failures stop and every group becomes inactive, a
\* run_batch over valid input files that is not a dry run ends, with a
\* run-state artifact and a results artifact for every input file and with
\* the merged artifact.
C23_RunEventuallyCompletes ==
    (pc = "enqueue_all" /\ ~DRY_RUN)
       ~> (/\ pc = "done"
           /\ ~DRY_RUN
           /\ output_file_path(MergedName, "results") \in DOMAIN tree
           /\ \A i \in DOMAIN input.listing :
                 endswith(input.listing[i].name, DotCsv) =>
                    /\ output_file_path(input.listing[i].name, "runs")
                          \in DOMAIN tree
                    /\ fetched_path(input.listing[i].name) \in DOMAIN tree)

\* ------------------------------------------------- enqueue_one called alone
\* the run-state artifact an earlier submission of file f to group 1 wrote
earlier_run_state(f) ==
    to_csv(DataFrame(state_map(create_run_payloads(f.keys),
                               add_runs_ids(1, create_run_payloads(f.keys)),
                               1)))

\* enqueue_one(filepath, processor, file_manager) is called for a file of the
\* input directory, before or after an earlier submission of a valid file
\* wrote its run-state artifact
SubmitInit ==
    /\ DRY_RUN \in BOOLEAN
    /\ SKIP_INVALID \in BOOLEAN
    /\ input \in InputDirs
    /\ input.exists
    /\ pc = "enqueue_one"
    /\ \E i \in DOMAIN input.listing :
          \E enqueued \in BOOLEAN :
             LET f == input.listing[i]
             IN  /\ endswith(f.name, DotCsv)
                 /\ enqueued => validate_file(f) = "ok"
                 /\ loc = [NoLocals EXCEPT !.file = f.name]
                 /\ tree = IF enqueued
                           THEN write_file(NoTree,
                                           output_file_path(f.name, "runs"),
                                           earlier_run_state(f))
                           ELSE NoTree
                 /\ groups = IF enqueued
                             THEN <<[active |-> TRUE,
                                     inputs |-> create_run_payloads(f.keys)]>>
                             ELSE <<>>
                 /\ dirs = IF enqueued THEN {"runs"} ELSE {}
    /\ calls = NoCalls
    /\ before = NoBefore
    /\ invocations = 0
    /\ kills = 0
    /\ faults = 0

SubmitNext ==
    \/ enqueue_one_validate
    \/ enqueue_one_create
    \/ enqueue_one_add_runs
    \/ enqueue_one_to_csv

SubmitSpec == SubmitInit /\ [][SubmitNext]_vars

ValidatedFiles ==
    { csv_file(PlainName, [i \in 1..n |-> "A"]) :
        n \in (FILE_LENGTH_LIMIT - RowsAround)..(FILE_LENGTH_LIMIT + RowsAround) }
    \cup { garbled_file(PlainName), dangling_file(PlainName) }

ValidateInit ==
    /\ DRY_RUN = FALSE
    /\ SKIP_INVALID = FALSE
    /\ input \in { [exists |-> TRUE, listing |-> <<f>>] : f \in ValidatedFiles }
    /\ dirs = {}
    /\ tree = NoTree
    /\ groups = <<>>
    /\ pc = "validate_file"
    /\ loc = [NoLocals EXCEPT !.file = PlainName]
    /\ calls = NoCalls
    /\ before = NoBefore
    /\ invocations = 0
    /\ kills = 0
    /\ faults = 0

\* FileManager.validate_file(file) returns or raises
validate_file_call ==
    /\ pc = "validate_file"
    /\ LET v == validate_file(input_file(loc.file))
       IN  /\ pc' = IF v = "ok" THEN "validated" ELSE "raised"
           /\ loc' = [loc EXCEPT !.error = v]
    /\ UNCHANGED <<DRY_RUN, SKIP_INVALID, input, dirs, tree, groups, calls,
                   before, invocations, kills, faults>>

ValidateNext == validate_file_call

ValidateSpec == ValidateInit /\ [][ValidateNext]_vars

\* C25: validate_file accepts a file that parses iff it has at most 1000 data
\* rows; with 1001 rows or more it raises ValidationError.
C25_RowCeiling ==
    (/\ pc \in {"validated", "raised"}
     /\ input_file(loc.file).exists
     /\ input_file(loc.file).parses)
       => /\ pc = "validated" <=> Len(input_file(loc.file).keys) <= 1000
          /\ pc = "raised" <=> Len(input_file(loc.file).keys) >= 1001
          /\ pc = "raised" => loc.error = "ValidationError"

\* validate_file has accepted a file with exactly 1000 rows
C25_Witness ==
    /\ pc = "validated"
    /\ Len(input_file(loc.file).keys) = 1000

\* ================================================ vertex_parallel/client.py
\* a Python dict is the function from its keys to their values
EmptyDict == [k \in {} |-> "none"]

\* dict.get(key, default): the default only when the key is missing
dict_get(d, key, default) == IF key \in DOMAIN d THEN d[key] ELSE default

\* an optional list of domains: None, or a list
NoList == [none |-> TRUE]
SomeList(l) == [none |-> FALSE, list |-> l]

\* `if self.include_domains:` is false for None and for the empty list
truthy(o) == ~o.none /\ o.list # <<>>

\* the defaults of GroundingConfig
DEFAULT_MAX_RESULTS == 10
DEFAULT_MAX_CHARS_PER_RESULT == 30000
DEFAULT_MAX_CHARS_TOTAL == 100000

DomainLists ==
    { NoList, SomeList(<<>>), SomeList(<<"example.com">>),
      SomeList(<<"example.com", "docs.example.com">>) }

\* the configurations to_grounding_spec is called on
GroundingConfigs ==
    [api_key : {"test-key"},
     max_results : {5, DEFAULT_MAX_RESULTS},
     max_chars_per_result : {10000, DEFAULT_MAX_CHARS_PER_RESULT},
     max_chars_total : {50000, DEFAULT_MAX_CHARS_TOTAL},
     include_domains : DomainLists,
     exclude_domains : DomainLists]

\* to_grounding_spec with max_results written whatever its value
to_grounding_spec_always_max_results(self) ==
    "parallelAiSearch" :>
        (("api_key" :> self.api_key)
         @@ ("customConfigs" :> ("max_results" :> self.max_results)))

\* GroundingConfig.to_grounding_spec
to_grounding_spec(self) ==
    LET source_policy ==
            (IF truthy(self.include_domains)
             THEN "include_domains" :> self.include_domains.list ELSE EmptyDict)
            @@ (IF truthy(self.exclude_domains)
                THEN "exclude_domains" :> self.exclude_domains.list ELSE EmptyDict)
        excerpts ==
            (IF self.max_chars_per_result # 30000
             THEN "max_chars_per_result" :> self.max_chars_per_result
             ELSE EmptyDict)
            @@ (IF self.max_chars_total # 100000
                THEN "max_chars_total" :> self.max_chars_total ELSE EmptyDict)
        custom_configs ==
            (IF DOMAIN source_policy # {}
             THEN "source_policy" :> source_policy ELSE EmptyDict)
            @@ (IF DOMAIN excerpts # {}
                THEN "excerpts" :> excerpts ELSE EmptyDict)
            @@ (IF self.max_results # 10
                THEN "max_results" :> self.max_results ELSE EmptyDict)
        parallel_config ==
            ("api_key" :> self.api_key)
            @@ (IF DOMAIN custom_configs # {}
                THEN "customConfigs" :> custom_configs ELSE EmptyDict)
    IN  "parallelAiSearch" :> parallel_config

\* Python None where a dict is expected, and None as a source's title
NoneDict == [None |-> TRUE]
is_none(d) == "None" \in DOMAIN d
NoTitle == "None"

AttributeError == [raised |-> "AttributeError"]

\* the shapes of the API response: every entry present, missing or empty,
\* and content and groundingMetadata also null
PartsLists == { <<>>, <<EmptyDict>>, <<[text |-> "Hello"]>> }
Contents ==
    { EmptyDict, [role |-> "model"] }
    \cup { "parts" :> p : p \in PartsLists }
FullChunk == "web" :> [uri |-> "https://example.com", title |-> "Example"]
UntitledChunk == "web" :> [uri |-> "https://example.org"]
ChunkLists ==
    { <<>>, <<FullChunk>>, <<EmptyDict, FullChunk>>, <<UntitledChunk>>,
      <<"web" :> EmptyDict>> }
GroundingMetadatas ==
    { q @@ c @@ s :
        q \in { EmptyDict, "webSearchQueries" :> <<"query1">> },
        c \in { EmptyDict } \cup { "groundingChunks" :> l : l \in ChunkLists },
        s \in { EmptyDict, "groundingSupports" :> <<[groundingChunkIndices |-> <<0>>]>> } }
Candidates ==
    { c @@ g :
        c \in { EmptyDict } \cup { "content" :> x : x \in Contents \cup {NoneDict} },
        g \in { EmptyDict }
              \cup { "groundingMetadata" :> m : m \in GroundingMetadatas \cup {NoneDict} } }
ApiResponses ==
    { EmptyDict, "candidates" :> <<>> }
    \cup { "candidates" :> <<c>> : c \in Candidates }

\* from_api_response reading response["candidates"]
from_api_response_indexes_candidates(response) ==
    IF "candidates" \notin DOMAIN response
    THEN [raised |-> "KeyError"]
    ELSE [text |-> "", sources |-> <<>>, web_search_queries |-> <<>>,
          raw_response |-> response, grounding_supports |-> <<>>]

\* GroundedResponse.from_api_response: the GroundedResponse, or the exception
\* .get raises on None
from_api_response(response) ==
    LET candidates == dict_get(response, "candidates", <<>>)
        content == dict_get(candidates[1], "content", EmptyDict)
        parts == dict_get(content, "parts", <<>>)
        text == IF candidates # <<>> /\ parts # <<>>
                THEN dict_get(parts[1], "text", "") ELSE ""
        grounding_metadata ==
            IF candidates # <<>>
            THEN dict_get(candidates[1], "groundingMetadata", EmptyDict)
            ELSE EmptyDict
        web_search_queries == dict_get(grounding_metadata, "webSearchQueries", <<>>)
        grounding_chunks == dict_get(grounding_metadata, "groundingChunks", <<>>)
        web_infos == SelectSeq(
            [i \in DOMAIN grounding_chunks |->
                dict_get(grounding_chunks[i], "web", EmptyDict)],
            LAMBDA web_info : DOMAIN web_info # {})
        sources == [i \in DOMAIN web_infos |->
                      [uri |-> dict_get(web_infos[i], "uri", ""),
                       title |-> dict_get(web_infos[i], "title", NoTitle)]]
        grounding_supports == dict_get(grounding_metadata, "groundingSupports", <<>>)
    IN  IF candidates # <<>> /\ is_none(content)
        THEN AttributeError
        ELSE IF is_none(grounding_metadata)
        THEN AttributeError
        ELSE [text |-> text, sources |-> sources,
              web_search_queries |-> web_search_queries,
              raw_response |-> response,
              grounding_supports |-> grounding_supports]

\* a client function called alone: on one configuration, or on one response
ClientInit ==
    /\ DRY_RUN = FALSE
    /\ SKIP_INVALID = FALSE
    /\ input = [exists |-> FALSE, listing |-> <<>>]
    /\ dirs = {}
    /\ tree = NoTree
    /\ groups = <<>>
    /\ \/ /\ pc = "to_grounding_spec"
          /\ \E c \in GroundingConfigs : loc = [NoLocals EXCEPT !.self = c]
       \/ /\ pc = "from_api_response"
          /\ \E r \in ApiResponses : loc = [NoLocals EXCEPT !.response = r]
    /\ calls = NoCalls
    /\ before = NoBefore
    /\ invocations = 0
    /\ kills = 0
    /\ faults = 0

\* config.to_grounding_spec() returns
to_grounding_spec_call ==
    /\ pc = "to_grounding_spec"
    /\ pc' = "to_grounding_spec_return"
    /\ loc' = [loc EXCEPT !.ret = to_grounding_spec(loc.self)]
    /\ UNCHANGED <<DRY_RUN, SKIP_INVALID, input, dirs, tree, groups, calls,
                   before, invocations, kills, faults>>

\* GroundedResponse.from_api_response(response) returns or raises
from_api_response_call ==
    /\ pc = "from_api_response"
    /\ LET r == from_api_response(loc.response)
       IN  IF "raised" \in DOMAIN r
           THEN /\ pc' = "from_api_response_raise"
                /\ loc' = [loc EXCEPT !.error = r.raised]
           ELSE /\ pc' = "from_api_response_return"
                /\ loc' = [loc EXCEPT !.ret = r]
    /\ UNCHANGED <<DRY_RUN, SKIP_INVALID, input, dirs, tree, groups, calls,
                   before, invocations, kills, faults>>

ClientNext ==
    \/ to_grounding_spec_call
    \/ from_api_response_call

ClientSpec == ClientInit /\ [][ClientNext]_vars

\* C26: to_grounding_spec always returns parallelAiSearch with the api_key;
\* customConfigs is there iff some option is non-default; max_results,
\* max_chars_per_result and max_chars_total appear only when they differ from
\* 10, 30000 and 100000, source_policy only when an include or exclude list
\* is non-empty, and what appears is the configured value.
C26_OnlyNonDefaultOptions ==
    pc = "to_grounding_spec_return" =>
        LET c == loc.self
            p == loc.ret["parallelAiSearch"]
            cc == p["customConfigs"]
            included == ~c.include_domains.none /\ Len(c.include_domains.list) > 0
            excluded == ~c.exclude_domains.none /\ Len(c.exclude_domains.list) > 0
        IN  /\ DOMAIN loc.ret = {"parallelAiSearch"}
            /\ "api_key" \in DOMAIN p
            /\ p["api_key"] = c.api_key
            /\ DOMAIN p \subseteq {"api_key", "customConfigs"}
            /\ "customConfigs" \in DOMAIN p
                  <=> \/ c.max_results # 10
                      \/ c.max_chars_per_result # 30000
                      \/ c.max_chars_total # 100000
                      \/ included
                      \/ excluded
            /\ "customConfigs" \in DOMAIN p =>
                  /\ DOMAIN cc \subseteq {"max_results", "excerpts", "source_policy"}
                  /\ "max_results" \in DOMAIN cc =>
                        c.max_results # 10 /\ cc["max_results"] = c.max_results
                  /\ "excerpts" \in DOMAIN cc =>
                        /\ DOMAIN cc["excerpts"]
                              \subseteq {"max_chars_per_result", "max_chars_total"}
                        /\ "max_chars_per_result" \in DOMAIN cc["excerpts"] =>
                              /\ c.max_chars_per_result # 30000
                              /\ cc["excerpts"]["max_chars_per_result"]
                                    = c.max_chars_per_result
                        /\ "max_chars_total" \in DOMAIN cc["excerpts"] =>
                              /\ c.max_chars_total # 100000
                              /\ cc["excerpts"]["max_chars_total"] = c.max_chars_total
                  /\ "source_policy" \in DOMAIN cc =>
                        /\ included \/ excluded
                        /\ DOMAIN cc["source_policy"]
                              \subseteq {"include_domains", "exclude_domains"}
                        /\ "include_domains" \in DOMAIN cc["source_policy"] => included
                        /\ "exclude_domains" \in DOMAIN cc["source_policy"] => excluded

\* to_grounding_spec has returned customConfigs holding max_results alone, for
\* a configuration whose other options are the defaults or an empty list
C26_Witness ==
    /\ pc = "to_grounding_spec_return"
    /\ loc.self.max_results = 5
    /\ loc.self.max_chars_per_result = 30000
    /\ loc.self.max_chars_total = 100000
    /\ loc.self.include_domains.none
    /\ ~loc.self.exclude_domains.none
    /\ loc.self.exclude_domains.list = <<>>
    /\ DOMAIN loc.ret["parallelAiSearch"]["customConfigs"] = {"max_results"}

\* C27: from_api_response returns for every response whose entries are present
\* or missing: with no candidates it returns empty text, no sources and no
\* search queries; for a candidate without groundingMetadata it returns the
\* candidate's text, no sources and no search queries; it never raises for a
\* missing candidates, content, parts or groundingMetadata entry.
C27_TotalOverMissingEntries ==
    pc \in {"from_api_response_return", "from_api_response_raise"} =>
        LET r == loc.response
            no_candidates ==
                \/ "candidates" \notin DOMAIN r
                \/ r["candidates"] = <<>>
            first == r["candidates"][1]
            null_entry ==
                /\ ~no_candidates
                /\ \/ "content" \in DOMAIN first /\ "None" \in DOMAIN first["content"]
                   \/ /\ "groundingMetadata" \in DOMAIN first
                      /\ "None" \in DOMAIN first["groundingMetadata"]
            candidate_text ==
                IF /\ "content" \in DOMAIN first
                   /\ "parts" \in DOMAIN first["content"]
                   /\ Len(first["content"]["parts"]) > 0
                   /\ "text" \in DOMAIN first["content"]["parts"][1]
                THEN first["content"]["parts"][1]["text"]
                ELSE ""
        IN  /\ ~null_entry => pc = "from_api_response_return"
            /\ no_candidates =>
                  /\ pc = "from_api_response_return"
                  /\ loc.ret.text = ""
                  /\ loc.ret.sources = <<>>
                  /\ loc.ret.web_search_queries = <<>>
            /\ (~no_candidates /\ ~null_entry
                   /\ "groundingMetadata" \notin DOMAIN first) =>
                  /\ loc.ret.text = candidate_text
                  /\ loc.ret.sources = <<>>
                  /\ loc.ret.web_search_queries = <<>>

\* from_api_response has returned the text of a candidate that has no
\* groundingMetadata entry
C27_Witness ==
    /\ pc = "from_api_response_return"
    /\ "candidates" \in DOMAIN loc.response
    /\ loc.response["candidates"] # <<>>
    /\ "groundingMetadata" \notin DOMAIN loc.response["candidates"][1]
    /\ loc.ret.text = "Hello"
    /\ loc.ret.sources = <<>>

\* --------------------------------------------------- the state-store mapping
\* the file name without its last four characters, the .csv extension
without_extension(input_filename) ==
    SubSeq(input_filename, 1, Len(input_filename) - Len(DotCsv))

\* C28: for every input file name and stage, output_file_path returns
\* <stage>/<base name with exactly .csv removed><stage suffix>, with
\* _tgrp_runs.csv for runs and _results.csv for results: so it does for the
\* input file whose run-state artifact the submission is about to write.
C28_PathIsNameWithoutCsvPlusSuffix ==
    pc = "runs_to_csv" =>
       /\ pending_write.path
             = [dir |-> "runs",
                name |-> without_extension(loc.file) \o RUN_STATE_FILE_SUFFIX]
       /\ output_file_path(loc.file, "results")
             = [dir |-> "results",
                name |-> without_extension(loc.file) \o RESULT_STATE_FILE_SUFFIX]

\* C29: for a file with N rows the submission builds N payloads, one per row,
\* sends all N in one add_runs call to the batch it has just created, and
\* writes a run-state artifact with exactly N records, one per submitted task.
C29_OnePayloadAndRecordPerRow ==
    [][(/\ pc = "runs_to_csv"
        /\ pc' = "enqueue_all_for"
        /\ loc'.completed = TRUE)
       => LET N == Len(input_file(loc.file).keys)
              written == tree'[output_file_path(loc.file, "runs")]
              records == IF written[1] = HeaderLine THEN Tail(written) ELSE <<>>
          IN  /\ Len(loc.input_map) = N
              /\ loc.tgroup = Len(groups)
              /\ Len(groups[loc.tgroup].inputs) = N
              /\ Len(loc.run_ids) = N
              /\ Len(records) = N
              /\ \A i \in DOMAIN records : records[i].run = loc.run_ids[i]]_vars

\* the records of a run-state artifact: the lines under the header
run_records(lines) ==
    IF lines # <<>> /\ lines[1] = HeaderLine THEN Tail(lines) ELSE <<>>

\* C30: every record of a run-state artifact carries the same batch id, the
\* id of a batch that was created, and every run id of the artifact is a run
\* of that batch: the batch id fetch_one reads from the first row owns every
\* run the artifact records.
C30_OneBatchPerArtifact ==
    \A p \in DOMAIN tree :
        p.dir = "runs" =>
            LET records == run_records(tree[p])
            IN  \A i \in DOMAIN records :
                    /\ records[i].batch = records[1].batch
                    /\ records[1].batch \in DOMAIN groups
                    /\ records[i].run[1] = records[1].batch
                    /\ records[i].run[2] \in DOMAIN groups[records[1].batch].inputs
                    /\ groups[records[1].batch].inputs[records[i].run[2]].key
                          = records[i].key

\* _fetch_one has read, from the first row of a two-record run-state artifact,
\* the id of the second batch created, the batch of both records
C30_Witness ==
    /\ pc = "task_run_result"
    /\ Len(groups) = 2
    /\ loc.tgroup = 2
    /\ Len(loc.run_df) = 2
    /\ loc.run_df[2].batch = 2
    /\ loc.run_df[2].run = <<2, 2>>

\* C31: fetch_one never raises: an exception raised while the run-state
\* artifact is read, the batch status is queried or the results artifact is
\* written is caught and reported as not completed, and the file, reported
\* not completed, is still unfetched for the next pass of fetch_all, which
\* retries it.
C31_FetchOneNeverRaises ==
    [][(/\ pc \in FetchOne
        /\ pc' \notin FetchOne
        /\ pc' # "killed")
       => /\ pc' \in {"fetch_all", "fetch_all_for"}
          /\ loc'.completed \in BOOLEAN
          /\ faults' > faults => loc'.completed = FALSE
          /\ loc'.completed = FALSE =>
                /\ pc' = "fetch_all"
                /\ ~already_fetched(tree', loc.file)]_vars

\* ---------------------------------- GroundedGeminiClient._get_access_token
\* the most refreshes of the credentials in one behaviour
MaxRefreshes == 3

\* None as a token, and the tokens credentials.refresh may leave
NoToken == "None"
Tokens == {NoToken, "", "ya29.a", "ya29.b"}

\* `if self._cached_token` is false for None and for the empty string
token_truthy(token) == token # NoToken /\ token # ""

\* the values time.time() returns, in seconds
Times ==
    {1000, 1001, 1059, 1060, 1061, 1119, 1120, 1121, 1180, 4539, 4540, 4541,
     4600, 4601, 8200}

\* the lifetimes of the tokens credentials.refresh obtains, in seconds
Lifetimes == {30, 60, 120, 3600}

\* the offset of the local time zone from UTC, in seconds
UtcOffsets == {-3600, 0, 3600}

\* credentials.expiry is a naive datetime in UTC; datetime.timestamp() reads
\* a naive datetime as local time
expiry_timestamp(expiry_utc, utcoffset) == expiry_utc - utcoffset

\* credentials.expiry: None, or a naive datetime
NoExpiry == [none |-> TRUE]
SomeExpiry(utc) == [none |-> FALSE, utc |-> utc]

\* the client as __init__ leaves it: no token cached, expiry 0
GroundedGeminiClient(utcoffset) ==
    [_cached_token |-> NoToken,
     _token_expiry |-> 0,
     _credentials |-> [token |-> NoToken, expiry |-> NoExpiry, refreshes |-> 0],
     utcoffset |-> utcoffset]

\* the cache test of _get_access_token without the 60 seconds of margin
cached_token_valid_to_expiry(self, current_time) ==
    token_truthy(self._cached_token) /\ current_time < self._token_expiry

\* the cache test of _get_access_token
cached_token_valid(self, current_time) ==
    token_truthy(self._cached_token) /\ current_time < (self._token_expiry - 60)

\* the client after a refresh that left token and expiry on the credentials
refresh_token(self, current_time, token, expiry) ==
    [self EXCEPT
        !._credentials = [token |-> token, expiry |-> expiry,
                          refreshes |-> self._credentials.refreshes + 1],
        !._cached_token = token,
        !._token_expiry =
            IF ~expiry.none
            THEN expiry_timestamp(expiry.utc, self.utcoffset)
            ELSE current_time + 3600]

\* the client is built; calls of _get_access_token follow
TokenInit ==
    /\ DRY_RUN = FALSE
    /\ SKIP_INVALID = FALSE
    /\ input = [exists |-> FALSE, listing |-> <<>>]
    /\ dirs = {}
    /\ tree = NoTree
    /\ groups = <<>>
    /\ pc = "_get_access_token"
    /\ \E o \in UtcOffsets :
          loc = [NoLocals EXCEPT !.self = GroundedGeminiClient(o),
                                 !.current_time = 1000]
    /\ calls = NoCalls
    /\ before = NoBefore
    /\ invocations = 0
    /\ kills = 0
    /\ faults = 0

\* one call of _get_access_token, at a time not before that of the last call:
\* the cached token is returned
get_access_token_cached ==
    /\ pc = "_get_access_token"
    /\ \E t \in Times :
          /\ t >= loc.current_time
          /\ cached_token_valid(loc.self, t)
          /\ loc' = [loc EXCEPT !.current_time = t,
                                !.ret = loc.self._cached_token,
                                !.error = "none"]
    /\ UNCHANGED <<DRY_RUN, SKIP_INVALID, input, dirs, tree, groups, pc, calls,
                   before, invocations, kills, faults>>

\* one call of _get_access_token: the credentials are refreshed, and the
\* token and the expiry they hold are cached and returned
get_access_token_refresh ==
    /\ pc = "_get_access_token"
    /\ loc.self._credentials.refreshes < MaxRefreshes
    /\ \E t \in Times :
          /\ t >= loc.current_time
          /\ ~cached_token_valid(loc.self, t)
          /\ \E token \in Tokens,
                expiry \in {NoExpiry} \cup {SomeExpiry(t + l) : l \in Lifetimes} :
                LET self == refresh_token(loc.self, t, token, expiry)
                IN  loc' = [loc EXCEPT !.current_time = t,
                                       !.self = self,
                                       !.ret = self._cached_token,
                                       !.error = "none"]
    /\ UNCHANGED <<DRY_RUN, SKIP_INVALID, input, dirs, tree, groups, pc, calls,
                   before, invocations, kills, faults>>

\* one call of _get_access_token: credentials.refresh raises, the exception
\* leaves the call and the cache stays as it was
get_access_token_refresh_raises ==
    /\ pc = "_get_access_token"
    /\ loc.self._credentials.refreshes < MaxRefreshes
    /\ \E t \in Times :
          /\ t >= loc.current_time
          /\ ~cached_token_valid(loc.self, t)
          /\ loc' = [loc EXCEPT
                        !.current_time = t,
                        !.self._credentials.refreshes = @ + 1,
                        !.ret = "none",
                        !.error = "RefreshError"]
    /\ UNCHANGED <<DRY_RUN, SKIP_INVALID, input, dirs, tree, groups, pc, calls,
                   before, invocations, kills, faults>>

TokenNext ==
    \/ get_access_token_cached
    \/ get_access_token_refresh
    \/ get_access_token_refresh_raises

TokenSpec == TokenInit /\ [][TokenNext]_vars

\* C32: a call of _get_access_token refreshes the credentials iff no token is
\* cached or its time is at or after the cached expiry minus 60 seconds;
\* otherwise it returns the cached token and refreshes nothing. So a token
\* returned from the cache is never within 60 seconds of its recorded expiry.
C32_RefreshIffNearExpiry ==
    [][LET refreshed ==
              loc'.self._credentials.refreshes > loc.self._credentials.refreshes
           no_token == loc.self._cached_token \in {"None", ""}
           t == loc'.current_time
       IN  /\ t >= loc.current_time
           /\ refreshed <=> (no_token \/ t >= loc.self._token_expiry - 60)
           /\ ~refreshed =>
                 /\ loc'.self = loc.self
                 /\ loc'.ret = loc.self._cached_token
                 /\ loc'.ret \notin {"None", ""}
                 /\ loc.self._token_expiry - t > 60]_vars

\* a token has been returned from the cache 61 seconds before its recorded
\* expiry, after one refresh (no refresh leaves a token 61 seconds to live)
C32_Witness ==
    /\ pc = "_get_access_token"
    /\ loc.self._credentials.refreshes = 1
    /\ loc.ret = "ya29.a"
    /\ loc.self._cached_token = "ya29.a"
    /\ loc.self._token_expiry - loc.current_time = 61
    /\ loc.current_time > 1000
    /\ loc.self.utcoffset = 0

\* ------------------------------------------------------------ validate_setup
\* a or b on optional strings: a when it is truthy (not None, not empty)
py_or(a, b) == IF truthy(a) THEN a ELSE b

Alnum == {"p", "1"}

\* s.replace("-", "").replace("_", "").isalnum(): some character is left and
\* every one is a letter or a digit
isalnum_without_dashes(s) ==
    LET rest == SelectSeq(s, LAMBDA c : c \notin {"-", "_"})
    IN  rest # <<>> /\ \A i \in DOMAIN rest : rest[i] \in Alnum

\* optional strings as arguments and environment variables: None (unset),
\* empty, a well-formed value, values isalnum rejects
OptionalIds ==
    { NoList, SomeList(<<>>), SomeList(<<"p", "-", "1">>),
      SomeList(<<"p", " ", "1">>), SomeList(<<"-">>) }
OptionalKeys == { NoList, SomeList(<<>>), SomeList(<<"k">>) }

\* what the authentication block meets: a token after refresh, a refresh
\* that returns and leaves no token, or one of the exceptions
AuthOutcomes ==
    {"token", "no_token", "DefaultCredentialsError", "RefreshError", "Exception"}

\* the calls of validate_setup: its arguments, the two environment variables
\* and the answer of google.auth
SetupCalls ==
    [project_id : OptionalIds,
     parallel_api_key : OptionalKeys,
     GOOGLE_CLOUD_PROJECT : {NoList, SomeList(<<"p", "1">>)},
     PARALLEL_API_KEY : {NoList, SomeList(<<"k">>)},
     auth : AuthOutcomes]

\* validate_setup
validate_setup(args) ==
    LET found_project_id == py_or(args.project_id, args.GOOGLE_CLOUD_PROJECT)
        found_api_key == py_or(args.parallel_api_key, args.PARALLEL_API_KEY)
        parallel_api_key_set == truthy(found_api_key)
        gcp_auth_valid == args.auth = "token"
        errors ==
            (IF ~truthy(found_project_id)
             THEN <<"GOOGLE_CLOUD_PROJECT environment variable is not set">>
             ELSE <<>>)
            \o (IF ~parallel_api_key_set
                THEN <<"PARALLEL_API_KEY environment variable is not set">>
                ELSE <<>>)
            \o (CASE args.auth = "DefaultCredentialsError" ->
                       <<"GCP credentials not found">>
                  [] args.auth = "RefreshError" ->
                       <<"GCP credentials expired or invalid">>
                  [] args.auth = "Exception" ->
                       <<"GCP authentication error">>
                  [] OTHER -> <<>>)
        warnings ==
            IF truthy(found_project_id)
               /\ ~isalnum_without_dashes(found_project_id.list)
            THEN <<"Project ID may be invalid">>
            ELSE <<>>
    IN  [is_valid |-> Len(errors) = 0,
         project_id |-> found_project_id,
         parallel_api_key_set |-> parallel_api_key_set,
         gcp_auth_valid |-> gcp_auth_valid,
         errors |-> errors,
         warnings |-> warnings]

\* validate_setup called alone
SetupInit ==
    /\ DRY_RUN = FALSE
    /\ SKIP_INVALID = FALSE
    /\ input = [exists |-> FALSE, listing |-> <<>>]
    /\ dirs = {}
    /\ tree = NoTree
    /\ groups = <<>>
    /\ pc = "validate_setup"
    /\ \E a \in SetupCalls : loc = [NoLocals EXCEPT !.args = a]
    /\ calls = NoCalls
    /\ before = NoBefore
    /\ invocations = 0
    /\ kills = 0
    /\ faults = 0

\* validate_setup(project_id, parallel_api_key) returns the SetupStatus
validate_setup_call ==
    /\ pc = "validate_setup"
    /\ pc' = "validate_setup_return"
    /\ loc' = [loc EXCEPT !.ret = validate_setup(loc.args)]
    /\ UNCHANGED <<DRY_RUN, SKIP_INVALID, input, dirs, tree, groups, calls,
                   before, invocations, kills, faults>>

SetupNext == validate_setup_call

SetupSpec == SetupInit /\ [][SetupNext]_vars

\* C33: validate_setup returns is_valid = true iff a project id was found, a
\* Parallel API key was found and gcp_auth_valid is true; and is_valid is true
\* iff the errors list is empty.
C33_ValidIffAllChecksPassed ==
    pc = "validate_setup_return" =>
        /\ loc.ret.is_valid
              <=> /\ ~loc.ret.project_id.none
                  /\ Len(loc.ret.project_id.list) > 0
                  /\ loc.ret.parallel_api_key_set
                  /\ loc.ret.gcp_auth_valid
        /\ loc.ret.is_valid <=> loc.ret.errors = <<>>

\* ========================================== Task_Group_Temporal_Recipe.py
\* the companies the workflow is run on: up to three of two
Companies == {"Stripe", "Shopify"}
CompanyLists ==
    {<<>>} \cup UNION { [1..n -> Companies] : n \in 1..3 }

\* what the results stream holds for one run: an event with input and output,
\* an event without output, a data line the parse rejects (KeyError,
\* IndexError, JSONDecodeError)
EventKinds == {"completed", "no_output", "rejected"}

\* the LookerResults of poll_and_get_results: the companies of the events
\* that carry input and output, in the order of the stream
looker_results(inputs, kinds) ==
    LET kept == SelectSeq([i \in DOMAIN inputs |-> [company |-> inputs[i],
                                                     kind |-> kinds[i]]],
                          LAMBDA e : e.kind = "completed")
    IN  [i \in DOMAIN kept |-> kept[i].company]

\* LookerCheckWorkflow.run(companies) starts
WorkflowInit ==
    /\ DRY_RUN = FALSE
    /\ SKIP_INVALID = FALSE
    /\ input = [exists |-> FALSE, listing |-> <<>>]
    /\ dirs = {}
    /\ tree = NoTree
    /\ groups = <<>>
    /\ pc = "create_task_group"
    /\ \E c \in CompanyLists : loc = [NoLocals EXCEPT !.args = c]
    /\ calls = NoCalls
    /\ before = NoBefore
    /\ invocations = 0
    /\ kills = 0
    /\ faults = 0

\* the activity create_task_group: the POST creates a group and its id is
\* returned to the workflow; or the activity fails (the request, or the
\* response of a request that did create a group) and Temporal runs it again
create_task_group ==
    /\ pc = "create_task_group"
    /\ \/ /\ groups' = Append(groups, [active |-> TRUE, inputs |-> <<>>])
          /\ pc' = "add_tasks_to_group"
          /\ loc' = [loc EXCEPT !.tgroup = Len(groups) + 1]
          /\ UNCHANGED faults
       \/ /\ faults < MaxFaults
          /\ faults' = faults + 1
          /\ groups' \in {groups, Append(groups, [active |-> TRUE, inputs |-> <<>>])}
          /\ UNCHANGED <<pc, loc>>
    /\ UNCHANGED <<DRY_RUN, SKIP_INVALID, input, dirs, tree, calls, before,
                   invocations, kills>>

\* the activity add_tasks_to_group: one input per company is posted to the
\* group of taskgroup_id and the run ids are returned; or the activity fails
\* (before or after the runs were added) and Temporal runs it again
add_tasks_to_group ==
    /\ pc = "add_tasks_to_group"
    /\ LET added == [groups EXCEPT ![loc.tgroup].inputs = @ \o loc.args]
       IN  \/ /\ groups' = added
              /\ pc' = "poll_and_get_results"
              /\ loc' = [loc EXCEPT
                            !.run_ids =
                               [i \in 1..Len(loc.args) |->
                                  <<loc.tgroup,
                                    Len(groups[loc.tgroup].inputs) + i>>]]
              /\ UNCHANGED faults
           \/ /\ faults < MaxFaults
              /\ faults' = faults + 1
              /\ groups' \in {groups, added}
              /\ UNCHANGED <<pc, loc>>
    /\ UNCHANGED <<DRY_RUN, SKIP_INVALID, input, dirs, tree, calls, before,
                   invocations, kills>>

\* poll_status breaking out of the loop while the group is active
poll_status_breaks_when_active ==
    /\ pc = "poll_and_get_results"
    /\ pc' = IF groups[loc.tgroup].active THEN "get_results" ELSE "asyncio_sleep"
    /\ loc' = [loc EXCEPT !.result = [is_active |-> groups[loc.tgroup].active]]
    /\ UNCHANGED <<DRY_RUN, SKIP_INVALID, input, dirs, tree, groups, calls,
                   before, invocations, kills, faults>>

\* poll_and_get_results, one turn of the loop: the status of the group is
\* queried; the loop is left when it is not active; a failed query fails the
\* activity and Temporal runs it again from the start
poll_status ==
    /\ pc = "poll_and_get_results"
    /\ \/ /\ pc' = IF groups[loc.tgroup].active
                   THEN "asyncio_sleep" ELSE "get_results"
          /\ loc' = [loc EXCEPT
                        !.result = [is_active |-> groups[loc.tgroup].active]]
          /\ UNCHANGED faults
       \/ /\ faults < MaxFaults
          /\ faults' = faults + 1
          /\ loc' = [loc EXCEPT !.result = "none"]
          /\ UNCHANGED pc
    /\ UNCHANGED <<DRY_RUN, SKIP_INVALID, input, dirs, tree, groups, calls,
                   before, invocations, kills>>

\* poll_and_get_results: asyncio.sleep(5) is over, the loop turns
asyncio_sleep ==
    /\ pc = "asyncio_sleep"
    /\ pc' = "poll_and_get_results"
    /\ UNCHANGED <<DRY_RUN, SKIP_INVALID, input, dirs, tree, groups, loc,
                   calls, before, invocations, kills, faults>>

\* poll_and_get_results after the loop: the runs of the group are requested
\* and the stream is parsed, the workflow returns the results; a failed
\* request fails the activity and Temporal runs it again from the start
get_results ==
    /\ pc = "get_results"
    /\ \/ /\ \E kinds \in [DOMAIN groups[loc.tgroup].inputs -> EventKinds] :
                loc' = [loc EXCEPT
                           !.results = looker_results(groups[loc.tgroup].inputs,
                                                      kinds),
                           !.ret = looker_results(groups[loc.tgroup].inputs,
                                                  kinds)]
          /\ pc' = "workflow_return"
          /\ UNCHANGED faults
       \/ /\ faults < MaxFaults
          /\ faults' = faults + 1
          /\ pc' = "poll_and_get_results"
          /\ loc' = [loc EXCEPT !.result = "none"]
    /\ UNCHANGED <<DRY_RUN, SKIP_INVALID, input, dirs, tree, groups, calls,
                   before, invocations, kills>>

\* the service finishes the runs of the group the workflow polls
taskgroup_completes ==
    /\ pc \in {"poll_and_get_results", "asyncio_sleep"}
    /\ groups[loc.tgroup].active
    /\ groups' = [groups EXCEPT ![loc.tgroup].active = FALSE]
    /\ UNCHANGED <<DRY_RUN, SKIP_INVALID, input, dirs, tree, pc, loc, calls,
                   before, invocations, kills, faults>>

WorkflowNext ==
    \/ create_task_group
    \/ add_tasks_to_group
    \/ poll_status
    \/ asyncio_sleep
    \/ get_results
    \/ taskgroup_completes

WorkflowSpec == WorkflowInit /\ [][WorkflowNext]_vars

\* C34: the workflow steps come in the order create_task_group,
\* add_tasks_to_group on the id of the created group, poll_and_get_results;
\* the run results are requested only after a status query of that group
\* reported is_active = false, and while it reports the group active the
\* activity sleeps and then queries again.
C34_WorkflowStepsInOrder ==
    [][/\ pc' # pc =>
            /\ pc' = "add_tasks_to_group" => pc = "create_task_group"
            /\ pc' = "poll_and_get_results" =>
                  pc \in {"add_tasks_to_group", "asyncio_sleep", "get_results"}
            /\ pc' = "asyncio_sleep" =>
                  /\ pc = "poll_and_get_results"
                  /\ loc'.result.is_active
            /\ pc' = "get_results" =>
                  /\ pc = "poll_and_get_results"
                  /\ ~loc'.result.is_active
                  /\ ~groups[loc.tgroup].active
            /\ pc' = "workflow_return" => pc = "get_results"
            /\ pc = "asyncio_sleep" => pc' = "poll_and_get_results"
            /\ pc' = "add_tasks_to_group" =>
                  /\ loc'.tgroup = Len(groups')
                  /\ Len(groups') = Len(groups) + 1
       /\ pc \in {"add_tasks_to_group", "poll_and_get_results",
                  "asyncio_sleep", "get_results"} =>
            /\ loc'.tgroup = loc.tgroup
            /\ \A g \in DOMAIN groups :
                  g # loc.tgroup => groups'[g] = groups[g]]_vars

\* the workflow has returned the one result of a finished group of two runs,
\* no activity having failed
C34_Witness ==
    /\ pc = "workflow_return"
    /\ faults = 0
    /\ Len(groups) = 1
    /\ Len(groups[1].inputs) = 2
    /\ ~groups[1].active
    /\ Len(loc.ret) = 1

\* C35: for every input file, the results path derived from the input file
\* (merge_results) equals the results path derived from the name of its
\* run-state artifact (fetch_one); so when fetch_all has completed, every
\* enqueued input file is seen as fetched by merge_results.
C35_ResultsPathsAgree ==
    pc = "merge_results" =>
        \A i \in DOMAIN iter_files(input_names) :
            LET n == iter_files(input_names)[i]
            IN  already_enqueued(tree, n) =>
                   /\ output_file_path(output_file_path(n, "runs").name, "results")
                         = output_file_path(n, "results")
                   /\ already_fetched(tree, n)

\* C36: two input files with different base names never map to the same
\* run-state path or the same results path: in a first run over an empty
\* output tree, a file enqueue_all finds already enqueued was submitted
\* itself, and a run-state file fetch_all finds already fetched has a results
\* artifact made of the runs of its own batch.
C36_NoArtifactOfAnotherFile ==
    (invocations = 1 /\ loc.listing # <<>>) =>
        /\ (pc = "enqueue_all_for" /\ already_enqueued(tree, Head(loc.listing)))
              => calls[Head(loc.listing)].add_runs >= 1
        /\ (pc = "fetch_all_for" /\ already_fetched(tree, Head(loc.listing)))
              => LET own == run_records(tree[[dir |-> "runs",
                                              name |-> Head(loc.listing)]])
                     fetched == run_records(
                         tree[output_file_path(Head(loc.listing), "results")])
                 IN  \A i \in DOMAIN fetched :
                        \E j \in DOMAIN own : own[j].batch = fetched[i].batch

\* C37: the path of the merged artifact is the results path of no input file,
\* an input file named merged.csv included, so writing the merged artifact
\* leaves every per-file results artifact as it was.
C37_MergedPathIsNoResultsPath ==
    [][pc = "merged_to_csv" =>
          \A i \in DOMAIN iter_files(input_names) :
              LET p == output_file_path(iter_files(input_names)[i], "results")
              IN  /\ p # pending_write.path
                  /\ p \in DOMAIN tree => (p \in DOMAIN tree' /\ tree'[p] = tree[p])]_vars

\* C38: in every reachable state, each record of the results artifact of a
\* run-state file agrees with one record of that run-state artifact on merge
\* key, run id and batch id, no run id is in two results records, and the
\* results artifact has at most as many records as the run-state artifact.
C38_ResultsWithinRunState ==
    \A rp \in DOMAIN tree :
        (/\ rp.dir = "runs"
         /\ endswith(rp.name, DotCsv)
         /\ output_file_path(rp.name, "results") \in DOMAIN tree) =>
            LET own == run_records(tree[rp])
                fetched == run_records(tree[output_file_path(rp.name, "results")])
            IN  /\ \A i \in DOMAIN fetched :
                      /\ "run" \in DOMAIN fetched[i]
                      /\ \E j \in DOMAIN own :
                            /\ own[j].key = fetched[i].key
                            /\ own[j].run = fetched[i].run
                            /\ own[j].batch = fetched[i].batch
                /\ \A i, k \in DOMAIN fetched :
                      ("run" \in DOMAIN fetched[i] /\ "run" \in DOMAIN fetched[k]
                         /\ fetched[i].run = fetched[k].run) => i = k
                /\ Len(fetched) <= Len(own)

\* C39: every run-state artifact the submission stage writes can be fetched:
\* it loads and has at least one record, whose batch id fetch_one reads; an
\* input file without data rows leaves no artifact that fetch_one fails on.
C39_RunStateCanBeFetched ==
    [][(/\ pc = "runs_to_csv"
        /\ pc' = "enqueue_all_for"
        /\ loc'.completed = TRUE)
       => LET written == tree'[output_file_path(loc.file, "runs")]
          IN  /\ ~load_csv_raises(written)
              /\ Len(load_csv(written).rows) >= 1
              /\ load_csv(written).rows[1].batch = loc.tgroup]_vars

\* C40: when every run of a finished batch is dropped, fetch_one still writes
\* a results artifact and the file counts as fetched; merge_results then
\* succeeds for that file and emits one merged row per input row, with empty
\* output fields.
C40_AllDroppedStillMerges ==
    [][/\ (/\ pc = "results_to_csv"
           /\ loc.results = <<>>
           /\ pc' = "fetch_all_for"
           /\ loc'.completed = TRUE)
          => /\ already_fetched(tree', loc.file)
             /\ tree'[output_file_path(loc.file, "results")]
                   = to_csv(DataFrame(<<>>))
       /\ (/\ pc = "merge_results"
           /\ pc' # "killed"
           /\ Len(fetched_files) = 1
           /\ input_file(fetched_files[1]).exists
           /\ input_file(fetched_files[1]).parses
           /\ tree[output_file_path(fetched_files[1], "results")]
                 = to_csv(DataFrame(<<>>)))
          => /\ pc' = "merged_to_csv"
             /\ Len(loc'.merged_df.rows) = Len(input_file(fetched_files[1]).keys)
             /\ \A i \in DOMAIN loc'.merged_df.rows :
                   /\ loc'.merged_df.rows[i].key = input_file(fetched_files[1]).keys[i]
                   /\ loc'.merged_df.rows[i].result = NoMatch]_vars

====
